---- MODULE Spec2Model ----
(***************************************************************************)
(* Model of the runestone reconciliation pipeline: the dependency DAG      *)
(* (internal/executor), the drift detector (internal/drift), the policy    *)
(* engine (internal/policy) and the bootstrap / commit controllers (cmd).  *)
(*                                                                         *)
(* Instance IDs are modelled by their rank in lexicographic order: the     *)
(* integer i stands for the i-th instance ID, so that sort.Strings is an   *)
(* ascending sort.  Go values of type interface{} are modelled as tagged   *)
(* records [t, v, m] so that values of different dynamic type are unequal. *)
(***************************************************************************)
EXTENDS Integers, Sequences, FiniteSets, TLC

(***************************************************************************)
(* Bounds of the model.                                                    *)
(***************************************************************************)
MaxNodes == 3
MaxDeps == 2
MaxCommitDeps == 1
MaxRuns == 2
MaxAlignNodes == 2
MaxTicks == 2
MaxResources == 2
MaxCount == 2
MaxItems == 2
MaxTransitions == 2
MaxReads == 2

IDs == 1..MaxNodes

(***************************************************************************)
(* Strings (package strings).                                              *)
(***************************************************************************)
HasPrefix(s, p) == Len(s) >= Len(p) /\ SubSeq(s, 1, Len(p)) = p

TrimPrefix(s, p) == IF HasPrefix(s, p) THEN SubSeq(s, Len(p) + 1, Len(s)) ELSE s

Contains(s, sub) ==
    \E i \in 1..(Len(s) - Len(sub) + 1) : SubSeq(s, i, i + Len(sub) - 1) = sub

SetMin(S) == CHOOSE x \in S : \A y \in S : x <= y

\* strings.Split(kind, ":")[0]
extractProviderName(kind) ==
    LET colons == {i \in 1..Len(kind) : SubSeq(kind, i, i) = ":"}
    IN  IF colons = {} THEN kind ELSE SubSeq(kind, 1, SetMin(colons) - 1)

(***************************************************************************)
(* Go values held in map[string]interface{}.                               *)
(***************************************************************************)
EmptyMap == [k \in {} |-> ""]
NilV == [t |-> "nil", v |-> "", m |-> EmptyMap]
StrV(s) == [t |-> "string", v |-> s, m |-> EmptyMap]
BoolV(b) == [t |-> "bool", v |-> IF b THEN "true" ELSE "false", m |-> EmptyMap]
MapV(f) == [t |-> "map", v |-> "", m |-> f]

\* A nil map[string]interface{}: what GetCurrentState returns for a resource
\* that does not exist.
Absent == [absent |-> TRUE]

NoPolicy == [set |-> FALSE, AutoHeal |-> FALSE, NotifyOnly |-> FALSE]
NoError == [kind |-> "nil", node |-> 0]

\* Ascending sequence of the elements of a finite set of integers.
RECURSIVE SortedSeq(_)
SortedSeq(S) ==
    IF S = {} THEN << >>
    ELSE LET x == SetMin(S) IN << x >> \o SortedSeq(S \ {x})

Range(s) == {s[i] : i \in 1..Len(s)}

\* All orders in which a range loop may visit the keys of a Go map.
RECURSIVE Perms(_)
Perms(S) ==
    IF S = {} THEN {<< >>}
    ELSE UNION {{<< x >> \o p : p \in Perms(S \ {x})} : x \in S}

(***************************************************************************)
(* config.ResourceInstance                                                 *)
(***************************************************************************)
ResourceInstance(id, kind, name, props, policy, deps) ==
    [ID |-> id, Kind |-> kind, Name |-> name, Properties |-> props,
     DriftPolicy |-> policy, DependsOn |-> deps]

(***************************************************************************)
(* executor.DAG                                                            *)
(***************************************************************************)
NoDAG == [nodes |-> << >>, built |-> FALSE]

DAGNode(instance) ==
    [ID |-> instance.ID, Instance |-> instance, Dependencies |-> << >>,
     Dependents |-> << >>, Status |-> "pending", Error |-> NoError]

shouldDependOn(dependent, dependency) ==
    IF HasPrefix(dependency.Instance.Kind, "module:")
    THEN Contains(dependent.Instance.Name,
                  TrimPrefix(dependency.Instance.Kind, "module:"))
    ELSE FALSE

\* The edges inferDependencies adds for one node: the module nodes whose
\* kind suffix occurs in the node's name.
inferDependencies(nodes, id) ==
    IF HasPrefix(nodes[id].Instance.Kind, "module:") THEN {}
    ELSE {o \in DOMAIN nodes :
            /\ o # id
            /\ HasPrefix(nodes[o].Instance.Kind, "module:")
            /\ shouldDependOn(nodes[id], nodes[o])}

\* hasCycle: depth-first search with a recursion stack; deps is the part of
\* node.Dependencies still to be visited.  Returns the result and the maps.
RECURSIVE hasCycleFrom(_, _, _, _, _)
hasCycleFrom(nodes, nodeID, deps, visited, recStack) ==
    IF deps = << >>
    THEN [found |-> FALSE, visited |-> visited, recStack |-> recStack \ {nodeID}]
    ELSE LET depID == Head(deps) IN
         IF depID \notin visited
         THEN LET r == hasCycleFrom(nodes, depID, nodes[depID].Dependencies,
                                    visited \cup {depID}, recStack \cup {depID})
              IN  IF r.found THEN r
                  ELSE hasCycleFrom(nodes, nodeID, Tail(deps), r.visited, r.recStack)
         ELSE IF depID \in recStack
              THEN [found |-> TRUE, visited |-> visited, recStack |-> recStack]
              ELSE hasCycleFrom(nodes, nodeID, Tail(deps), visited, recStack)

\* A variant that leaves the root off the recursion stack.
hasCycleRootOffStack(nodes, nodeID, visited, recStack) ==
    hasCycleFrom(nodes, nodeID, nodes[nodeID].Dependencies,
                 visited \cup {nodeID}, recStack)

hasCycle(nodes, nodeID, visited, recStack) ==
    hasCycleFrom(nodes, nodeID, nodes[nodeID].Dependencies,
                 visited \cup {nodeID}, recStack \cup {nodeID})

\* validateAcyclic visiting the map keys in the given order: the error naming
\* the first root from which hasCycle reports a cycle, or NoError.
RECURSIVE validateAcyclicFrom(_, _, _, _)
validateAcyclicFrom(nodes, order, visited, recStack) ==
    IF order = << >> THEN NoError
    ELSE LET nodeID == Head(order) IN
         IF nodeID \in visited
         THEN validateAcyclicFrom(nodes, Tail(order), visited, recStack)
         ELSE LET r == hasCycle(nodes, nodeID, visited, recStack) IN
              IF r.found THEN [kind |-> "circular_dependency", node |-> nodeID]
              ELSE validateAcyclicFrom(nodes, Tail(order), r.visited, r.recStack)

validateAcyclic(nodes, order) == validateAcyclicFrom(nodes, order, {}, {})

\* The nodes NewDAG has after its two loops; a dependency that names no node
\* is left out here and reported by NewDAG.
BuildNodes(instances) ==
    LET created == [id \in DOMAIN instances |-> DAGNode(instances[id])]
        explicit(id) == SelectSeq(instances[id].DependsOn,
                                  LAMBDA d : d \in DOMAIN instances)
        deps(id) == explicit(id) \o SortedSeq(inferDependencies(created, id))
    IN  [id \in DOMAIN instances |->
            [created[id] EXCEPT
                !.Dependencies = deps(id),
                !.Dependents = SortedSeq({o \in DOMAIN instances :
                                            id \in Range(deps(o))})]]

MissingDeps(instances, id) ==
    {d \in Range(instances[id].DependsOn) : d \notin DOMAIN instances}

\* A variant that drops a dependency naming no node instead of failing.
NewDAGDroppingMissing(instances, order) ==
    LET nodes == BuildNodes(instances)
        cyc == validateAcyclic(nodes, order)
    IN  IF cyc.kind # "nil"
        THEN [dag |-> NoDAG, err |-> cyc]
        ELSE [dag |-> [nodes |-> nodes, built |-> TRUE], err |-> NoError]

\* NewDAG, its range loops visiting the node map in the given order.
NewDAG(instances, order) ==
    LET broken == SelectSeq(order, LAMBDA id : MissingDeps(instances, id) # {})
        nodes == BuildNodes(instances)
        cyc == validateAcyclic(nodes, order)
    IN  IF broken # << >>
        THEN [dag |-> NoDAG,
              err |-> [kind |-> "dependency_not_found", node |-> Head(broken)]]
        ELSE IF cyc.kind # "nil"
        THEN [dag |-> NoDAG, err |-> cyc]
        ELSE [dag |-> [nodes |-> nodes, built |-> TRUE], err |-> NoError]

\* What NewDAG can return for the instances: Go leaves the iteration order of
\* the node map open, and the order decides which node an error names.
NewDAGResults(instances) ==
    {NewDAG(instances, order) : order \in Perms(DOMAIN instances)}

\* GetExecutionOrder: repeatedly take every unprocessed node whose
\* dependencies are all processed, sorted, as the next level.
RECURSIVE ExecutionLevels(_, _, _)
ExecutionLevels(nodes, processed, levels) ==
    IF Cardinality(processed) >= Cardinality(DOMAIN nodes) THEN levels
    ELSE LET currentLevel ==
                 {id \in DOMAIN nodes :
                    /\ id \notin processed
                    /\ \A i \in 1..Len(nodes[id].Dependencies) :
                          nodes[id].Dependencies[i] \in processed}
         IN  IF currentLevel = {} THEN levels
             ELSE ExecutionLevels(nodes, processed \cup currentLevel,
                                  Append(levels, SortedSeq(currentLevel)))

\* A variant that levels the nodes as if none had a dependency.
GetExecutionOrderIgnoringDependencies(d) ==
    ExecutionLevels([id \in DOMAIN d.nodes |->
                        [d.nodes[id] EXCEPT !.Dependencies = << >>]], {}, << >>)

GetExecutionOrder(d) == ExecutionLevels(d.nodes, {}, << >>)

(***************************************************************************)
(* State.                                                                  *)
(*   cmd, pc        the operation under way and its position               *)
(*   cfg            the parsed configuration: provider and module names    *)
(*   instances      the expanded instances, by ID                          *)
(*   providers      the names registered in the ProviderRegistry           *)
(*   live           the provider's live state of each resource, or Absent  *)
(*   err            the error the operation returned                       *)
(*   dag            the DAG NewDAG returned (its node table)               *)
(*   executionOrder the levels GetExecutionOrder returned                  *)
(*   driftResults   the map DetectDriftBatch returned                      *)
(*   exec           executeChanges: level, workers, channel, result        *)
(*   calls          the provider calls issued so far, per instance         *)
(*   violations     the policy violations bootstrap collected              *)
(*   run            the number of the command run                          *)
(*   previewChanges the change count of the last preview, -1 before any    *)
(*   align          runAlign: ticker channel, running ticks, position      *)
(*   retry          retryWithBackoff: loop counter, fn outcomes, waits done *)
(*   expand         ExpandResources: declarations, parser variables, loop   *)
(*   access         DAG.mutex, a SetNodeStatus call and a reader of a node  *)
(*   evaluation     one call of evaluateExpression: input, variables, outcome *)
(***************************************************************************)
VARIABLES cmd, cfg, pc, instances, providers, live, err, dag, executionOrder,
          driftResults, exec, calls, violations, run, previewChanges,
          align,
          retry,
          expand,
          access,
          evaluation

vars == << cmd, cfg, pc, instances, providers, live, err, dag, executionOrder,
           driftResults, exec, calls, violations, run, previewChanges,
           align,
           retry,
           expand,
           access,
           evaluation >>

NoCfg == [Providers |-> {}, Modules |-> {}]
NoDrift == [id \in {} |-> Absent]
NoCalls == [id \in IDs |-> [create |-> 0, update |-> 0, delete |-> 0,
                            updateArg |-> Absent]]
NoExec == [levelIndex |-> 0, worker |-> [id \in {} |-> "none"],
           resultChan |-> {}, received |-> 0,
           result |-> [Success |-> TRUE, Changes |-> {}, Errors |-> {}]]

NoAlign == [tickerC |-> 0, active |-> 0, index |-> 0, ticks |-> 0]

NoRetry == [attempt |-> 0, results |-> << >>, waits |-> << >>,
            cancellable |-> FALSE, cancelled |-> FALSE]

NoExpand == [resources |-> << >>, variables |-> EmptyMap, index |-> 0, perResource |-> << >>, instances |-> << >>]

NoAccess == [writer |-> FALSE, wpc |-> "idle", target |-> [Status |-> "pending", Error |-> NoError], transitions |-> 0, rpc |-> "idle", via |-> "", reads |-> 0, seen |-> [Status |-> "pending", Error |-> NoError], held |-> {}, raced |-> FALSE]

NoEvaluation == [parts |-> << >>, variables |-> EmptyMap, status |-> "none", value |-> NilV]

\* The parts of the state an operation that never reaches them leaves alone.
NoExecution ==
    /\ executionOrder = << >>
    /\ exec = NoExec
    /\ calls = NoCalls
    /\ violations = << >>
    /\ run = 1
    /\ previewChanges = -1
    /\ align = NoAlign
    /\ retry = NoRetry
    /\ expand = NoExpand
    /\ access = NoAccess
    /\ evaluation = NoEvaluation

(***************************************************************************)
(* NewDAG and GetExecutionOrder on every instance set within the bounds.   *)
(***************************************************************************)
KindOf(i) ==
    IF i = 1 THEN "module:vpc"
    ELSE IF i % 2 = 0 THEN "aws:ec2:instance" ELSE "aws:s3:bucket"

NameOf(i) ==
    IF i = 1 THEN "network" ELSE IF i = 2 THEN "web-vpc" ELSE "logs"

DependsOnChoices(S) ==
    {SortedSeq(D) : D \in {D \in SUBSET S : Cardinality(D) <= MaxDeps}}

\* Every set of instances with distinct IDs among IDs, each depending on at
\* most MaxDeps IDs, declared or not.
InstanceSets ==
    UNION {[P -> DependsOnChoices(IDs)] : P \in SUBSET IDs}

DagInstances(deps) ==
    [id \in DOMAIN deps |->
        ResourceInstance(id, KindOf(id), NameOf(id), EmptyMap, NoPolicy, deps[id])]

InitDAG ==
    /\ cmd = "NewDAG"
    /\ cfg = NoCfg
    /\ pc = "start"
    /\ \E deps \in InstanceSets : instances = DagInstances(deps)
    /\ providers = {}
    /\ live = [id \in IDs |-> Absent]
    /\ err = NoError
    /\ dag = NoDAG
    /\ driftResults = NoDrift
    /\ NoExecution

\* executor.NewDAG(instances)
CallNewDAG ==
    /\ cmd = "NewDAG"
    /\ pc = "start"
    /\ \E r \in NewDAGResults(instances) :
          /\ dag' = r.dag
          /\ err' = r.err
    /\ pc' = "built"
    /\ UNCHANGED << cmd, cfg, instances, providers, live, executionOrder,
                    driftResults, exec, calls, violations, run, previewChanges,
                    align, retry, expand, access, evaluation >>

\* dag.GetExecutionOrder() on a DAG NewDAG returned
CallGetExecutionOrder ==
    /\ cmd = "NewDAG"
    /\ pc = "built"
    /\ dag.built
    /\ executionOrder' = GetExecutionOrder(dag)
    /\ pc' = "ordered"
    /\ UNCHANGED << cmd, cfg, instances, providers, live, err, dag,
                    driftResults, exec, calls, violations, run, previewChanges,
                    align, retry, expand, access, evaluation >>

NextDAG == CallNewDAG \/ CallGetExecutionOrder

SpecDAG == InitDAG /\ [][NextDAG]_vars

(***************************************************************************)
(* The dependency relation of an instance set, stated without the DAG:     *)
(* explicit depends_on between declared instances plus the inferred module *)
(* edges.                                                                  *)
(***************************************************************************)
DepRelation(insts) ==
    LET created == [id \in DOMAIN insts |-> DAGNode(insts[id])]
    IN  [id \in DOMAIN insts |->
            (Range(insts[id].DependsOn) \cap DOMAIN insts)
                \cup inferDependencies(created, id)]

NodeRelation(nodes) == [id \in DOMAIN nodes |-> Range(nodes[id].Dependencies)]

RECURSIVE Closure(_, _)
Closure(rel, S) ==
    LET T == S \cup UNION {rel[x] : x \in S}
    IN  IF T = S THEN S ELSE Closure(rel, T)

\* Everything id depends on, directly or transitively.
Ancestors(rel, id) == Closure(rel, rel[id])

Cyclic(rel) == \E id \in DOMAIN rel : id \in Ancestors(rel, id)

AllTargetsExist(insts) == \A id \in DOMAIN insts : MissingDeps(insts, id) = {}

LevelOf(order, id) == {l \in 1..Len(order) : id \in Range(order[l])}

Occurrences(order, id) ==
    Cardinality({<< l, k >> \in (1..Len(order)) \X (1..MaxNodes + 1) :
                    k <= Len(order[l]) /\ order[l][k] = id})

\* C2: for every DAG NewDAG returned, GetExecutionOrder is a valid layering:
\* every node appears exactly once, in one level, and every dependency of a
\* node of level L is in a level strictly before L.
C2_ValidLayering ==
    (cmd = "NewDAG" /\ pc = "ordered") =>
        \A id \in DOMAIN dag.nodes :
            /\ Occurrences(executionOrder, id) = 1
            /\ \A d \in Range(dag.nodes[id].Dependencies) :
                  \E ld \in LevelOf(executionOrder, d) :
                      \A l \in LevelOf(executionOrder, id) : ld < l

\* A three-level order computed for a DAG with a two-dependency node.
C2_Witness ==
    /\ cmd = "NewDAG" /\ pc = "ordered"
    /\ Len(executionOrder) = 3
    /\ \E id \in DOMAIN dag.nodes : Len(dag.nodes[id].Dependencies) = 2

\* C3 as stated: NewDAG fails with a circular-dependency error if and only
\* if the dependency relation contains a cycle, and every returned DAG is
\* acyclic.
C3_CycleIffError ==
    (cmd = "NewDAG" /\ pc # "start") =>
        /\ (err.kind = "circular_dependency") <=> Cyclic(DepRelation(instances))
        /\ dag.built => ~Cyclic(NodeRelation(dag.nodes))

\* C3 amended: NewDAG fails with a circular-dependency error if and only if
\* every depends_on target exists and the dependency relation contains a
\* cycle (a missing target is reported first, as dependency-not-found);
\* every returned DAG is acyclic.
C3_CycleIffErrorWhenTargetsExist ==
    (cmd = "NewDAG" /\ pc # "start") =>
        /\ (err.kind = "circular_dependency") <=>
              (AllTargetsExist(instances) /\ Cyclic(DepRelation(instances)))
        /\ dag.built => ~Cyclic(NodeRelation(dag.nodes))

\* A cycle that exists only through an inferred module edge was rejected.
C3_Witness ==
    /\ cmd = "NewDAG" /\ pc = "built"
    /\ err.kind = "circular_dependency"
    /\ \E id \in DOMAIN instances :
          /\ inferDependencies([i \in DOMAIN instances |-> DAGNode(instances[i])], id) # {}
          /\ ~Cyclic([i \in DOMAIN instances |->
                        Range(instances[i].DependsOn) \cap DOMAIN instances])

\* C4: NewDAG returns an error and no DAG whenever some depends_on names an
\* ID that is not among the instances; when every target exists and the
\* relation is acyclic it returns a DAG with exactly one node per instance,
\* each pending.
C4_MissingTargetOrOneNodeEach ==
    (cmd = "NewDAG" /\ pc # "start") =>
        /\ ~AllTargetsExist(instances) => (err # NoError /\ ~dag.built)
        /\ (AllTargetsExist(instances) /\ ~Cyclic(DepRelation(instances))) =>
              /\ err = NoError
              /\ dag.built
              /\ DOMAIN dag.nodes = DOMAIN instances
              /\ \A id \in DOMAIN instances :
                    /\ dag.nodes[id].ID = id
                    /\ dag.nodes[id].Instance = instances[id]
                    /\ dag.nodes[id].Status = "pending"

\* A dangling depends_on was rejected.
C4_Witness ==
    /\ cmd = "NewDAG" /\ pc = "built"
    /\ err.kind = "dependency_not_found"
    /\ ~dag.built
    /\ Cardinality(DOMAIN instances) >= 2

(***************************************************************************)
(* drift.Detector                                                          *)
(***************************************************************************)
\* A variant listing seven of the names.
metadataFieldsSeven ==
    {"arn", "id", "creation_date", "last_modified", "status", "state",
     "availability_zone"}

metadataFields ==
    {"arn", "id", "creation_date", "last_modified", "status", "state",
     "availability_zone", "instance_id", "vpc_id", "subnet_id"}

isMetadataField(fieldName) == fieldName \in metadataFields

\* reflect.DeepEqual after the nil checks
valuesEqual(current, desired) ==
    IF current = NilV /\ desired = NilV THEN TRUE
    ELSE IF current = NilV \/ desired = NilV THEN FALSE
    ELSE current = desired

DriftDifference(key, cur, des, type) ==
    [Property |-> key, CurrentValue |-> cur, DesiredValue |-> des,
     DriftType |-> type]

compareStates(current, desired) ==
    LET added == {k \in DOMAIN desired : k \notin DOMAIN current}
        modified == {k \in DOMAIN desired :
                        /\ k \in DOMAIN current
                        /\ ~valuesEqual(current[k], desired[k])}
        removed == {k \in DOMAIN current :
                        k \notin DOMAIN desired /\ ~isMetadataField(k)}
    IN  [k \in added \cup modified \cup removed |->
            IF k \in added
            THEN DriftDifference(k, NilV, desired[k], "added")
            ELSE IF k \in modified
            THEN DriftDifference(k, current[k], desired[k], "modified")
            ELSE DriftDifference(k, current[k], NilV, "removed")]

differencesToChanges(differences) ==
    {<< differences[k].DriftType, k >> : k \in DOMAIN differences}

\* A variant that reports drift for every resource.
DriftResultOfAlwaysDrift(instance, currentState) ==
    LET differences == IF currentState = Absent THEN [k \in {} |-> NilV]
                       ELSE compareStates(currentState, instance.Properties)
    IN  [HasDrift |-> TRUE,
         Changes |-> differencesToChanges(differences),
         Differences |-> differences,
         CurrentState |-> currentState,
         DesiredState |-> instance.Properties]

\* DetectDrift after a successful GetCurrentState that returned currentState
DriftResultOf(instance, currentState) ==
    IF currentState = Absent
    THEN [HasDrift |-> TRUE,
          Changes |-> {<< "Resource does not exist", "" >>},
          Differences |-> [k \in {} |-> NilV],
          CurrentState |-> Absent,
          DesiredState |-> instance.Properties]
    ELSE LET differences == compareStates(currentState, instance.Properties)
         IN  [HasDrift |-> Cardinality(DOMAIN differences) > 0,
              Changes |-> differencesToChanges(differences),
              Differences |-> differences,
              CurrentState |-> currentState,
              DesiredState |-> instance.Properties]

\* DetectDrift; stateOk tells whether GetCurrentState returned without error.
DetectDrift(registry, liveState, instance, stateOk) ==
    IF extractProviderName(instance.Kind) \notin registry
    THEN [result |-> Absent, err |-> [kind |-> "provider_not_found", node |-> instance.ID]]
    ELSE IF ~stateOk
    THEN [result |-> Absent, err |-> [kind |-> "get_current_state_failed", node |-> instance.ID]]
    ELSE [result |-> DriftResultOf(instance, liveState[instance.ID]), err |-> NoError]

\* DetectDriftBatch over the instances in list order (ascending ID); failing
\* is the set of instances whose GetCurrentState returns an error.
DetectDriftBatch(registry, liveState, insts, failing) ==
    LET bad == {id \in DOMAIN insts :
                  DetectDrift(registry, liveState, insts[id], id \notin failing).err # NoError}
    IN  IF bad # {}
        THEN [results |-> NoDrift,
              err |-> DetectDrift(registry, liveState, insts[SetMin(bad)],
                                  SetMin(bad) \notin failing).err]
        ELSE [results |-> [id \in DOMAIN insts |->
                              DetectDrift(registry, liveState, insts[id], TRUE).result],
              err |-> NoError]

(***************************************************************************)
(* The provider: create and update store the instance's properties as the  *)
(* live state, delete removes it (TestProvider); a call may also fail and  *)
(* then changes nothing.  Every call issued is counted.                    *)
(***************************************************************************)
ProviderCreate(liveState, callLog, instance, ok) ==
    [live |-> IF ok THEN [liveState EXCEPT ![instance.ID] = instance.Properties]
              ELSE liveState,
     calls |-> [callLog EXCEPT ![instance.ID].create = @ + 1],
     err |-> IF ok THEN NoError
             ELSE [kind |-> "provider_error", node |-> instance.ID]]

ProviderUpdate(liveState, callLog, instance, currentState, ok) ==
    [live |-> IF ok THEN [liveState EXCEPT ![instance.ID] = instance.Properties]
              ELSE liveState,
     calls |-> [callLog EXCEPT ![instance.ID].update = @ + 1,
                               ![instance.ID].updateArg = currentState],
     err |-> IF ok THEN NoError
             ELSE [kind |-> "provider_error", node |-> instance.ID]]

ProviderDelete(liveState, callLog, instance, ok) ==
    [live |-> IF ok THEN [liveState EXCEPT ![instance.ID] = Absent]
              ELSE liveState,
     calls |-> [callLog EXCEPT ![instance.ID].delete = @ + 1],
     err |-> IF ok THEN NoError
             ELSE [kind |-> "provider_error", node |-> instance.ID]]

NoProviderCall(liveState, callLog) ==
    [live |-> liveState, calls |-> callLog, err |-> NoError]

\* A variant that tests HasDrift before the missing current state.
AutoHealDriftFirst(registry, liveState, callLog, instance, driftResult, ok) ==
    IF ~instance.DriftPolicy.set \/ ~instance.DriftPolicy.AutoHeal
    THEN NoProviderCall(liveState, callLog)
    ELSE IF extractProviderName(instance.Kind) \notin registry
    THEN [live |-> liveState, calls |-> callLog,
          err |-> [kind |-> "provider_not_found", node |-> instance.ID]]
    ELSE IF driftResult.HasDrift
    THEN ProviderUpdate(liveState, callLog, instance, driftResult.CurrentState, ok)
    ELSE IF driftResult.CurrentState = Absent
    THEN ProviderCreate(liveState, callLog, instance, ok)
    ELSE NoProviderCall(liveState, callLog)

\* Detector.AutoHeal; ok is the outcome of the provider call it issues.
AutoHeal(registry, liveState, callLog, instance, driftResult, ok) ==
    IF ~instance.DriftPolicy.set \/ ~instance.DriftPolicy.AutoHeal
    THEN NoProviderCall(liveState, callLog)
    ELSE IF extractProviderName(instance.Kind) \notin registry
    THEN [live |-> liveState, calls |-> callLog,
          err |-> [kind |-> "provider_not_found", node |-> instance.ID]]
    ELSE IF driftResult.CurrentState = Absent
    THEN ProviderCreate(liveState, callLog, instance, ok)
    ELSE IF driftResult.HasDrift
    THEN ProviderUpdate(liveState, callLog, instance, driftResult.CurrentState, ok)
    ELSE NoProviderCall(liveState, callLog)

(***************************************************************************)
(* DetectDrift and AutoHeal on one instance, for every desired and live    *)
(* state over DriftKeys and every drift policy.                            *)
(***************************************************************************)
DriftKeys == {"versioning", "arn", "subnet_id"}
DriftValues == {BoolV(TRUE), StrV("true"), NilV}
PropertyMaps == UNION {[K -> DriftValues] : K \in SUBSET DriftKeys}
DriftPolicies ==
    {NoPolicy} \cup {[set |-> TRUE, AutoHeal |-> a, NotifyOnly |-> n] :
                        a \in BOOLEAN, n \in BOOLEAN}

InitDrift ==
    /\ cmd = "DetectDrift"
    /\ cfg = NoCfg
    /\ pc = "start"
    /\ \E props \in PropertyMaps, policy \in DriftPolicies :
          instances = [id \in {1} |->
              ResourceInstance(1, "aws:s3:bucket", "logs", props, policy, << >>)]
    /\ providers \in {{"aws"}, {}}
    /\ \E state \in PropertyMaps \cup {Absent} :
          live = [id \in IDs |-> IF id = 1 THEN state ELSE Absent]
    /\ err = NoError
    /\ dag = NoDAG
    /\ driftResults = NoDrift
    /\ NoExecution

\* detector.DetectDrift(ctx, instance)
CallDetectDrift ==
    /\ cmd = "DetectDrift"
    /\ pc = "start"
    /\ \E stateOk \in BOOLEAN :
          LET r == DetectDrift(providers, live, instances[1], stateOk) IN
          /\ err' = r.err
          /\ driftResults' = IF r.err = NoError THEN [id \in {1} |-> r.result]
                             ELSE NoDrift
          /\ pc' = IF r.err = NoError THEN "detected" ELSE "failed"
    /\ UNCHANGED << cmd, cfg, instances, providers, live, dag, executionOrder,
                    exec, calls, violations, run, previewChanges, align,
                    retry, expand, access, evaluation >>

\* detector.AutoHeal(ctx, instance, driftResult)
CallAutoHeal ==
    /\ cmd = "DetectDrift"
    /\ pc = "detected"
    /\ \E ok \in BOOLEAN :
          LET r == AutoHeal(providers, live, calls, instances[1], driftResults[1], ok) IN
          /\ live' = r.live
          /\ calls' = r.calls
          /\ err' = r.err
    /\ pc' = "healed"
    /\ UNCHANGED << cmd, cfg, instances, providers, dag, executionOrder,
                    driftResults, exec, violations, run, previewChanges,
                    align, retry, expand, access, evaluation >>

NextDrift == CallDetectDrift \/ CallAutoHeal

SpecDrift == InitDrift /\ [][NextDrift]_vars

(***************************************************************************)
(* policy.PolicyEngine                                                     *)
(***************************************************************************)
builtinRules ==
    << [Name |-> "s3-versioning-enabled", Severity |-> "warning",
        Condition |-> "resource.kind == 'aws:s3:bucket' && !properties.versioning"],
       [Name |-> "no-large-instances-in-dev", Severity |-> "error",
        Condition |-> "resource.kind == 'aws:ec2:instance' && properties.instance_type == 't3.large'"],
       [Name |-> "resources-must-have-environment-tag", Severity |-> "warning",
        Condition |-> "!tags.Environment"] >>

\* instance.Properties[key].(T): the value, when the key holds one of type t
HasTyped(props, key, t) == key \in DOMAIN props /\ props[key].t = t

evaluateRule(rule, instance) ==
    IF Contains(rule.Condition,
                "resource.kind == 'aws:s3:bucket' && !properties.versioning")
    THEN /\ instance.Kind = "aws:s3:bucket"
         /\ \/ ~HasTyped(instance.Properties, "versioning", "bool")
            \/ instance.Properties["versioning"].v # "true"
    ELSE IF Contains(rule.Condition,
                "resource.kind == 'aws:ec2:instance' && properties.instance_type == 't3.large'")
    THEN /\ instance.Kind = "aws:ec2:instance"
         /\ HasTyped(instance.Properties, "instance_type", "string")
         /\ instance.Properties["instance_type"].v = "t3.large"
    ELSE IF Contains(rule.Condition, "!tags.Environment")
    THEN IF HasTyped(instance.Properties, "tags", "map")
         THEN "Environment" \notin DOMAIN instance.Properties["tags"].m
         ELSE TRUE
    ELSE FALSE

PolicyViolation(rule, instance) ==
    [Rule |-> rule.Name, ResourceID |-> instance.ID,
     ResourceKind |-> instance.Kind, Severity |-> rule.Severity]

\* EvaluateResource: the violations of one instance, in rule order
RECURSIVE EvaluateRules(_, _)
EvaluateRules(rules, instance) ==
    IF rules = << >> THEN << >>
    ELSE (IF evaluateRule(Head(rules), instance)
          THEN << PolicyViolation(Head(rules), instance) >> ELSE << >>)
         \o EvaluateRules(Tail(rules), instance)

EvaluateResource(rules, instance) == EvaluateRules(rules, instance)

\* A variant that gates on a violation of any severity.
HasErrorsAnySeverity(vs) == Len(vs) > 0

HasErrors(vs) == \E i \in 1..Len(vs) : vs[i].Severity = "error"

\* The violations of all instances, in list order (ascending ID)
RECURSIVE EvaluateAll(_, _, _)
EvaluateAll(rules, insts, ids) ==
    IF ids = << >> THEN << >>
    ELSE EvaluateResource(rules, insts[Head(ids)])
         \o EvaluateAll(rules, insts, Tail(ids))

(***************************************************************************)
(* aws.Provider.ValidateResource                                           *)
(***************************************************************************)
validateS3Bucket(instance) ==
    /\ instance.Name # ""
    /\ Len(instance.Name) >= 3
    /\ Len(instance.Name) <= 63
    /\ ~Contains(instance.Name, "_")

validateEC2Instance(instance) ==
    /\ instance.Name # ""
    /\ "instance_type" \in DOMAIN instance.Properties
    /\ "ami" \in DOMAIN instance.Properties

\* TRUE when ValidateResource returns nil (the two kinds the model declares)
ValidateResource(instance) ==
    IF instance.Kind = "aws:s3:bucket" THEN validateS3Bucket(instance)
    ELSE IF instance.Kind = "aws:ec2:instance" THEN validateEC2Instance(instance)
    ELSE FALSE

\* validateConfiguration: the first instance, in list order, that has no
\* provider or fails provider validation
validateConfiguration(registry, insts) ==
    LET bad == {id \in DOMAIN insts :
                  \/ extractProviderName(insts[id].Kind) \notin registry
                  \/ ~ValidateResource(insts[id])}
    IN  IF bad = {} THEN NoError
        ELSE IF extractProviderName(insts[SetMin(bad)].Kind) \notin registry
        THEN [kind |-> "provider_not_found", node |-> SetMin(bad)]
        ELSE [kind |-> "validation_failed", node |-> SetMin(bad)]

(***************************************************************************)
(* runBootstrap on every configuration whose resources expand to a set of  *)
(* instances drawn from BootTemplates.                                     *)
(***************************************************************************)
EnvTags == MapV([k \in {"Environment"} |-> "prod"])
OtherTags == MapV([k \in {"Team"} |-> "infra"])

BootTemplates ==
    { [Kind |-> "aws:s3:bucket", Name |-> "logs",
       Properties |-> [k \in {"versioning", "tags"} |->
                          IF k = "versioning" THEN BoolV(TRUE) ELSE EnvTags]],
      [Kind |-> "aws:s3:bucket", Name |-> "logs",
       Properties |-> [k \in {"versioning"} |-> BoolV(FALSE)]],
      [Kind |-> "aws:s3:bucket", Name |-> "logs",
       Properties |-> [k \in {"versioning", "tags"} |->
                          IF k = "versioning" THEN StrV("true") ELSE OtherTags]],
      [Kind |-> "aws:s3:bucket", Name |-> "my_bucket",
       Properties |-> [k \in {"versioning"} |-> BoolV(TRUE)]],
      [Kind |-> "aws:ec2:instance", Name |-> "web",
       Properties |-> [k \in {"instance_type", "ami", "tags"} |->
                          IF k = "instance_type" THEN StrV("t3.large")
                          ELSE IF k = "ami" THEN StrV("ami-x") ELSE EnvTags]],
      [Kind |-> "aws:ec2:instance", Name |-> "web",
       Properties |-> [k \in {"instance_type", "ami"} |->
                          IF k = "instance_type" THEN StrV("t3.micro")
                          ELSE StrV("ami-x")]],
      [Kind |-> "aws:ec2:instance", Name |-> "web",
       Properties |-> [k \in {"instance_type"} |-> StrV("t3.large")]] }

\* The depends_on lists of the resources: none, a chain, or a ring in which
\* the last resource depends on the first
BootDependsOn(P) ==
    LET next(id) == IF \E o \in P : o > id
                    THEN << SetMin({o \in P : o > id}) >> ELSE << >>
    IN  { [id \in P |-> << >>],
          [id \in P |-> next(id)],
          [id \in P |-> IF next(id) = << >> THEN << SetMin(P) >> ELSE next(id)] }

BootInstances(choice, deps) ==
    [id \in DOMAIN choice |->
        ResourceInstance(id, choice[id].Kind, choice[id].Name,
                         choice[id].Properties, NoPolicy, deps[id])]

InitBootstrap ==
    /\ cmd = "bootstrap"
    /\ \E ps \in {{"aws"}, {"aws", "gcp"}, {}}, ms \in {{}, {"vpc"}} :
          cfg = [Providers |-> ps, Modules |-> ms]
    /\ pc = "start"
    /\ \E choice \in UNION {[P -> BootTemplates] : P \in SUBSET IDs} :
          \E deps \in BootDependsOn(DOMAIN choice) :
              instances = BootInstances(choice, deps)
    /\ providers = {}
    /\ live = [id \in IDs |-> Absent]
    /\ err = NoError
    /\ dag = NoDAG
    /\ driftResults = NoDrift
    /\ NoExecution

BootstrapFail(kind, node) ==
    /\ err' = [kind |-> kind, node |-> node]
    /\ pc' = "failed"

\* runBootstrap: provider initialisation (the range over cfg.Providers meets
\* an unsupported name or an aws provider whose Initialize fails)
BootstrapInitProviders ==
    /\ cmd = "bootstrap"
    /\ pc = "start"
    /\ \/ /\ cfg.Providers \ {"aws"} # {}
          /\ BootstrapFail("unsupported_provider", 0)
          /\ providers' \in SUBSET (cfg.Providers \cap {"aws"})
       \/ /\ "aws" \in cfg.Providers
          /\ BootstrapFail("provider_init_failed", 0)
          /\ providers' = {}
       \/ /\ cfg.Providers \ {"aws"} = {}
          /\ providers' = cfg.Providers
          /\ pc' = "validate"
          /\ err' = NoError
    /\ UNCHANGED << cmd, cfg, instances, live, dag, executionOrder,
                    driftResults, exec, calls, violations, run, previewChanges,
                    align, retry, expand, access, evaluation >>

\* runBootstrap: validateConfiguration and the second ExpandResources
BootstrapValidate ==
    /\ cmd = "bootstrap"
    /\ pc = "validate"
    /\ LET e == validateConfiguration(providers, instances) IN
       IF e # NoError THEN err' = e /\ pc' = "failed"
       ELSE err' = NoError /\ pc' = "policy"
    /\ UNCHANGED << cmd, cfg, instances, providers, live, dag, executionOrder,
                    driftResults, exec, calls, violations, run, previewChanges,
                    align, retry, expand, access, evaluation >>

\* runBootstrap: policy evaluation and the gate on HasErrors
BootstrapEvaluatePolicies ==
    /\ cmd = "bootstrap"
    /\ pc = "policy"
    /\ LET all == EvaluateAll(builtinRules, instances, SortedSeq(DOMAIN instances)) IN
       /\ violations' = all
       /\ IF HasErrors(all)
          THEN BootstrapFail("policy_violations", 0)
          ELSE err' = NoError /\ pc' = "modules"
    /\ UNCHANGED << cmd, cfg, instances, providers, live, dag, executionOrder,
                    driftResults, exec, calls, run, previewChanges, align,
                    retry, expand, access, evaluation >>

\* runBootstrap: module loading (Validate, Load, RegisterModule) and return
BootstrapLoadModules ==
    /\ cmd = "bootstrap"
    /\ pc = "modules"
    /\ \/ /\ cfg.Modules # {}
          /\ BootstrapFail("module_failed", 0)
       \/ /\ err' = NoError
          /\ pc' = "done"
    /\ UNCHANGED << cmd, cfg, instances, providers, live, dag, executionOrder,
                    driftResults, exec, calls, violations, run, previewChanges,
                    align, retry, expand, access, evaluation >>

NextBootstrap ==
    \/ BootstrapInitProviders
    \/ BootstrapValidate
    \/ BootstrapEvaluatePolicies
    \/ BootstrapLoadModules

SpecBootstrap == InitBootstrap /\ [][NextBootstrap]_vars

(***************************************************************************)
(* DAG node table accessors                                                *)
(***************************************************************************)
\* The variant that does not record that a node is running.
SetNodeStatusSkippingRunning(d, nodeID, status, e) ==
    IF nodeID \in DOMAIN d.nodes /\ status # "running"
    THEN [d EXCEPT !.nodes[nodeID].Status = status, !.nodes[nodeID].Error = e]
    ELSE d

SetNodeStatus(d, nodeID, status, e) ==
    IF nodeID \in DOMAIN d.nodes
    THEN [d EXCEPT !.nodes[nodeID].Status = status, !.nodes[nodeID].Error = e]
    ELSE d

(***************************************************************************)
(* cmd/preview.go                                                          *)
(***************************************************************************)
\* convertToOutputFormat: the instances that get a create or update change
convertToOutputFormat(insts, results) ==
    {id \in DOMAIN insts :
        /\ id \in DOMAIN results
        /\ \/ results[id].CurrentState = Absent
           \/ results[id].HasDrift}

(***************************************************************************)
(* cmd/commit.go: runCommit and executeChanges                             *)
(***************************************************************************)
\* A variant that tests HasDrift before the missing current state.
CommitActionForDriftFirst(driftResult) ==
    IF driftResult.HasDrift THEN "update"
    ELSE IF driftResult.CurrentState = Absent THEN "create"
    ELSE "none"

\* The provider action a worker of executeChanges takes for its node
CommitActionFor(driftResult) ==
    IF driftResult.CurrentState = Absent THEN "create"
    ELSE IF driftResult.HasDrift THEN "update"
    ELSE "none"

NodeResult(nodeID, change, e) == [nodeID |-> nodeID, change |-> change, err |-> e]

\* The variant in which the worker returns without sending.
WorkerReturnsSilently(x, id, res) == [x EXCEPT !.worker[id] = "returned"]

\* The worker has sent res on resultChan and returned.
WorkerSends(x, id, res) ==
    [x EXCEPT !.worker[id] = "returned", !.resultChan = @ \cup {res}]

CurrentLevel == executionOrder[exec.levelIndex]

(***************************************************************************)
(* runCommit on a configuration of MaxNodes instances, each depending on   *)
(* at most MaxCommitDeps others, with every combination of live states.    *)
(***************************************************************************)
CommitKind(i) == IF i % 2 = 1 THEN "aws:ec2:instance" ELSE "aws:s3:bucket"

CommitName(i) == (IF i % 2 = 1 THEN "web-" ELSE "logs-") \o ToString(i)

CommitProperties(i) ==
    IF i % 2 = 1
    THEN [k \in {"instance_type", "ami"} |->
             IF k = "instance_type" THEN StrV("t3.large") ELSE StrV("ami-x")]
    ELSE [k \in {"versioning"} |-> BoolV(TRUE)]

\* A live state that differs from the desired one in a declared property and
\* carries a metadata field.
DriftedState(i) ==
    IF i % 2 = 1
    THEN [k \in {"instance_type", "ami", "instance_id"} |->
             IF k = "instance_type" THEN StrV("t3.micro")
             ELSE IF k = "ami" THEN StrV("ami-x") ELSE StrV("i-1")]
    ELSE [k \in {"versioning", "arn"} |->
             IF k = "versioning" THEN BoolV(FALSE) ELSE StrV("arn:aws:s3")]

LiveChoices(i) == {Absent, CommitProperties(i), DriftedState(i)}

\* depends_on of instance i names instances declared before it; the first
\* instance may name itself, which is a cycle
CommitDependsOn(i) ==
    {SortedSeq(D) : D \in {D \in SUBSET (1..(IF i = 1 THEN 1 ELSE i - 1)) :
                             Cardinality(D) <= MaxCommitDeps}}

\* GetCurrentState fails for no instance or for one of them
FailingChoices == {{}} \cup {{id} : id \in IDs}

InitCommit ==
    /\ cmd = "commit"
    /\ cfg = [Providers |-> {"aws"}, Modules |-> {}]
    /\ pc = "start"
    /\ \E deps \in [IDs -> UNION {CommitDependsOn(i) : i \in IDs}] :
          /\ \A i \in IDs : deps[i] \in CommitDependsOn(i)
          /\ instances = [id \in IDs |->
              ResourceInstance(id, CommitKind(id), CommitName(id),
                               CommitProperties(id), NoPolicy, deps[id])]
    /\ providers = {}
    /\ \E l \in [IDs -> UNION {LiveChoices(i) : i \in IDs}] :
          /\ \A i \in IDs : l[i] \in LiveChoices(i)
          /\ live = l
    /\ err = NoError
    /\ dag = NoDAG
    /\ driftResults = NoDrift
    /\ NoExecution

\* runCommit up to the change summary: parse, provider initialisation,
\* ExpandResources and DetectDriftBatch
CommitDetectDrift ==
    /\ cmd = "commit"
    /\ pc = "start"
    /\ providers' = cfg.Providers
    /\ \E failing \in FailingChoices :
          LET r == DetectDriftBatch(cfg.Providers, live, instances, failing) IN
          /\ driftResults' = r.results
          /\ err' = r.err
          /\ pc' = IF r.err = NoError THEN "approve" ELSE "failed"
    /\ UNCHANGED << cmd, cfg, instances, live, dag, executionOrder,
                    exec, calls, violations, run, previewChanges, align,
                    retry, expand, access, evaluation >>

\* runCommit: the user declines the changes; the command returns nil
CommitDecline ==
    /\ cmd = "commit"
    /\ pc = "approve"
    /\ pc' = "cancelled"
    /\ UNCHANGED << cmd, cfg, instances, providers, live, err, dag, executionOrder,
                    driftResults, exec, calls, violations, run, previewChanges,
                    align, retry, expand, access, evaluation >>

\* runCommit: approval (or --auto-approve), NewDAG, and the call of
\* executeChanges up to GetExecutionOrder
CommitNewDAG ==
    /\ cmd = "commit"
    /\ pc = "approve"
    /\ \E r \in NewDAGResults(instances) :
          /\ dag' = r.dag
          /\ err' = r.err
          /\ pc' = IF r.err = NoError THEN "exec" ELSE "failed"
          /\ executionOrder' = IF r.err = NoError THEN GetExecutionOrder(r.dag)
                               ELSE << >>
    /\ UNCHANGED << cmd, cfg, instances, providers, live,
                    driftResults, exec, calls, violations, run, previewChanges,
                    align, retry, expand, access, evaluation >>

\* The variant whose receive loop ends with the first result of the level.
LevelCollectedAfterFirstResult ==
    exec.levelIndex > 0 =>
        exec.received = Len(CurrentLevel) \/ exec.resultChan # {}

\* The receive loop of the level entered last has taken len(level) results
LevelCollected ==
    exec.levelIndex > 0 => exec.received = Len(CurrentLevel)

\* executeChanges: enter the next level and start one goroutine per node
StartLevel ==
    /\ cmd = "commit"
    /\ pc = "exec"
    /\ exec.levelIndex < Len(executionOrder)
    /\ LevelCollected
    /\ exec' = [exec EXCEPT
                  !.levelIndex = @ + 1,
                  !.worker = [id \in Range(executionOrder[exec.levelIndex + 1])
                                 |-> "spawned"],
                  !.resultChan = {},
                  !.received = 0]
    /\ UNCHANGED << cmd, cfg, pc, instances, providers, live, err, dag,
                    executionOrder, driftResults, calls, violations, run,
                    previewChanges, align, retry, expand, access, evaluation >>

\* worker: GetNode, the drift lookup and SetNodeStatus(running)
WorkerStart(id) ==
    /\ cmd = "commit"
    /\ pc = "exec"
    /\ id \in DOMAIN exec.worker
    /\ exec.worker[id] = "spawned"
    /\ IF id \notin DOMAIN dag.nodes
       THEN /\ exec' = WorkerSends(exec, id,
                          NodeResult(id, "none", [kind |-> "node_not_found", node |-> id]))
            /\ dag' = dag
       ELSE IF id \notin DOMAIN driftResults
       THEN /\ exec' = WorkerSends(exec, id, NodeResult(id, "none", NoError))
            /\ dag' = dag
       ELSE /\ exec' = [exec EXCEPT !.worker[id] = "running"]
            /\ dag' = SetNodeStatus(dag, id, "running", NoError)
    /\ UNCHANGED << cmd, cfg, pc, instances, providers, live, err,
                    executionOrder, driftResults, calls, violations, run,
                    previewChanges, align, retry, expand, access, evaluation >>

\* worker: registry.Get, the provider call, the final SetNodeStatus and the
\* send
WorkerFinish(id) ==
    /\ cmd = "commit"
    /\ pc = "exec"
    /\ id \in DOMAIN exec.worker
    /\ exec.worker[id] = "running"
    /\ \E ok \in BOOLEAN :
          LET action == CommitActionFor(driftResults[id])
              node == dag.nodes[id]
              r == IF extractProviderName(node.Instance.Kind) \notin providers
                   THEN [live |-> live, calls |-> calls,
                         err |-> [kind |-> "provider_not_found", node |-> id]]
                   ELSE IF action = "create"
                   THEN ProviderCreate(live, calls, node.Instance, ok)
                   ELSE IF action = "update"
                   THEN ProviderUpdate(live, calls, node.Instance,
                                       driftResults[id].CurrentState, ok)
                   ELSE NoProviderCall(live, calls)
          IN  /\ live' = r.live
              /\ calls' = r.calls
              /\ dag' = IF r.err # NoError
                        THEN SetNodeStatus(dag, id, "failed", r.err)
                        ELSE SetNodeStatus(dag, id, "completed", NoError)
              /\ exec' = WorkerSends(exec, id,
                            NodeResult(id, IF r.err = NoError THEN action ELSE "none",
                                       r.err))
    /\ UNCHANGED << cmd, cfg, pc, instances, providers, err, executionOrder,
                    driftResults, violations, run, previewChanges, align,
                    retry, expand, access, evaluation >>

\* executeChanges: the receive loop of the current level, which takes
\* len(level) results off resultChan; it gets past its last receive once
\* every worker of the level has sent.
CollectResults ==
    /\ cmd = "commit"
    /\ pc = "exec"
    /\ exec.levelIndex > 0
    /\ exec.received < Len(CurrentLevel)
    /\ Cardinality(exec.resultChan) = Len(CurrentLevel)
    /\ exec' = [exec EXCEPT
                  !.resultChan = {},
                  !.received = Len(CurrentLevel),
                  !.result.Success = @ /\ \A res \in exec.resultChan : res.err = NoError,
                  !.result.Errors = @ \cup {res.err : res \in
                                        {q \in exec.resultChan : q.err # NoError}},
                  !.result.Changes = @ \cup {<< res.change, res.nodeID >> : res \in
                                        {q \in exec.resultChan : q.change # "none"}}]
    /\ UNCHANGED << cmd, cfg, pc, instances, providers, live, err, dag,
                    executionOrder, driftResults, calls, violations, run,
                    previewChanges, align, retry, expand, access, evaluation >>

\* executeChanges returns (result, nil); runCommit displays it and returns nil
CommitReturn ==
    /\ cmd = "commit"
    /\ pc = "exec"
    /\ exec.levelIndex = Len(executionOrder)
    /\ LevelCollected
    /\ pc' = "done"
    /\ err' = NoError
    /\ UNCHANGED << cmd, cfg, instances, providers, live, dag, executionOrder,
                    driftResults, exec, calls, violations, run, previewChanges,
                    align, retry, expand, access, evaluation >>

\* runPreview after a commit whose every node succeeded
RunPreview ==
    /\ cmd = "commit"
    /\ pc = "done"
    /\ exec.result.Success
    /\ \E failing \in FailingChoices :
          LET r == DetectDriftBatch(cfg.Providers, live, instances, failing) IN
          /\ err' = r.err
          /\ previewChanges' = IF r.err = NoError
                               THEN Cardinality(convertToOutputFormat(instances, r.results))
                               ELSE previewChanges
          /\ pc' = IF r.err = NoError THEN "previewed" ELSE "failed"
    /\ UNCHANGED << cmd, cfg, instances, providers, live, dag, executionOrder,
                    driftResults, exec, calls, violations, run, align, retry,
                    expand, access, evaluation >>

\* The next run of commit, on the same configuration and the live state the
\* previous run left behind
CommitAgain ==
    /\ cmd = "commit"
    /\ pc = "previewed"
    /\ run < MaxRuns
    /\ run' = run + 1
    /\ pc' = "start"
    /\ providers' = {}
    /\ err' = NoError
    /\ dag' = NoDAG
    /\ executionOrder' = << >>
    /\ driftResults' = NoDrift
    /\ exec' = NoExec
    /\ calls' = NoCalls
    /\ UNCHANGED << cmd, cfg, instances, live, violations, previewChanges, align, retry, expand,
                    access, evaluation >>

NextCommit ==
    \/ CommitDetectDrift
    \/ CommitDecline
    \/ CommitNewDAG
    \/ StartLevel
    \/ \E id \in IDs : WorkerStart(id)
    \/ \E id \in IDs : WorkerFinish(id)
    \/ CollectResults
    \/ CommitReturn
    \/ RunPreview
    \/ CommitAgain

SpecCommit == InitCommit /\ [][NextCommit]_vars

\* executeChanges with goroutines that are scheduled and provider calls that
\* return: a step of the main goroutine or of a worker that stays possible
\* is taken
ExecuteChangesFairness ==
    /\ WF_vars(StartLevel)
    /\ \A id \in IDs : WF_vars(WorkerStart(id)) /\ WF_vars(WorkerFinish(id))
    /\ WF_vars(CollectResults)
    /\ WF_vars(CommitReturn)

SpecCommitFair == SpecCommit /\ ExecuteChangesFairness

(***************************************************************************)
(* cmd/align.go: runAlign and runAlignmentOnce on MaxAlignNodes buckets    *)
(* with every drift policy and live state, for at most MaxTicks ticks.     *)
(***************************************************************************)
AlignIDs == 1..MaxAlignNodes

AlignProperties == [k \in {"versioning"} |-> BoolV(TRUE)]

AlignDriftedState ==
    [k \in {"versioning", "arn"} |->
        IF k = "versioning" THEN BoolV(FALSE) ELSE StrV("arn:aws:s3")]

AlignLiveChoices == {Absent, AlignProperties, AlignDriftedState}

\* What the loop of runAlignmentOnce does with one instance
AlignDecision(instance, results) ==
    IF instance.ID \notin DOMAIN results \/ ~results[instance.ID].HasDrift
    THEN "skip"
    ELSE IF ~instance.DriftPolicy.set THEN "no_policy"
    ELSE IF instance.DriftPolicy.NotifyOnly THEN "notify"
    ELSE IF instance.DriftPolicy.AutoHeal THEN "heal"
    ELSE "none"

\* The variant of the ticker loop that starts runAlignmentOnce without
\* waiting for the one under way.
TickMayStartWhileRunning == pc \in {"select", "detect", "tick"}

\* runAlign's loop is at its select, ready to receive from ticker.C
TickMayStart == pc = "select"

\* runAlignmentOnce is entered
TickBegin ==
    /\ align' = [align EXCEPT !.active = @ + 1, !.ticks = @ + 1, !.index = 0,
                              !.tickerC = IF pc = "start" THEN @ ELSE 0]
    /\ pc' = "detect"
    /\ calls' = NoCalls
    /\ driftResults' = NoDrift
    /\ err' = NoError

InitAlign ==
    /\ cmd = "align"
    /\ \E once \in BOOLEAN :
          cfg = [Providers |-> {"aws"}, Modules |-> {}, Once |-> once]
    /\ pc = "start"
    /\ \E policy \in [AlignIDs -> DriftPolicies] :
          instances = [id \in AlignIDs |->
              ResourceInstance(id, "aws:s3:bucket", "logs-" \o ToString(id),
                               AlignProperties, policy[id], << >>)]
    /\ providers = {}
    /\ \E l \in [AlignIDs -> AlignLiveChoices] :
          live = [id \in IDs |-> IF id \in AlignIDs THEN l[id] ELSE Absent]
    /\ err = NoError
    /\ dag = NoDAG
    /\ driftResults = NoDrift
    /\ NoExecution

\* runAlign: --once, or NewTicker and the initial alignment
AlignInitial ==
    /\ cmd = "align"
    /\ pc = "start"
    /\ TickBegin
    /\ UNCHANGED << cmd, cfg, instances, providers, live, dag, executionOrder,
                    exec, violations, run, previewChanges, retry, expand,
                    access, evaluation >>

\* time.Ticker: the interval elapses; the tick is dropped when ticker.C,
\* of capacity 1, is full
TickerFire ==
    /\ cmd = "align"
    /\ ~cfg.Once
    /\ pc \in {"select", "detect", "tick"}
    /\ align.tickerC = 0
    /\ align' = [align EXCEPT !.tickerC = 1]
    /\ UNCHANGED << cmd, cfg, pc, instances, providers, live, err, dag,
                    executionOrder, driftResults, exec, calls, violations, run,
                    previewChanges, retry, expand, access, evaluation >>

\* runAlign: case <-ticker.C
AlignNextTick ==
    /\ cmd = "align"
    /\ ~cfg.Once
    /\ TickMayStart
    /\ align.tickerC = 1
    /\ align.ticks < MaxTicks
    /\ TickBegin
    /\ UNCHANGED << cmd, cfg, instances, providers, live, dag, executionOrder,
                    exec, violations, run, previewChanges, retry, expand,
                    access, evaluation >>

\* runAlignmentOnce: parse, provider initialisation, ExpandResources and
\* DetectDriftBatch; an error ends the tick
AlignDetectDrift ==
    /\ cmd = "align"
    /\ pc = "detect"
    /\ providers' = cfg.Providers
    /\ \E failing \in {{}} \cup {{id} : id \in AlignIDs} :
          LET r == DetectDriftBatch(cfg.Providers, live, instances, failing) IN
          /\ driftResults' = r.results
          /\ err' = r.err
          /\ IF r.err = NoError
             THEN /\ pc' = "tick"
                  /\ align' = [align EXCEPT !.index = 1]
             ELSE /\ pc' = IF cfg.Once THEN "failed" ELSE "select"
                  /\ align' = [align EXCEPT !.active = @ - 1]
    /\ UNCHANGED << cmd, cfg, instances, live, dag, executionOrder, exec, calls,
                    violations, run, previewChanges, retry, expand, access,
                    evaluation >>

\* runAlignmentOnce: one pass of the loop over the instances
AlignInstance ==
    /\ cmd = "align"
    /\ pc = "tick"
    /\ align.index <= Cardinality(DOMAIN instances)
    /\ LET instance == instances[align.index] IN
       IF AlignDecision(instance, driftResults) = "heal"
       THEN \E ok \in BOOLEAN :
               LET r == AutoHeal(providers, live, calls, instance,
                                 driftResults[instance.ID], ok) IN
               /\ live' = r.live
               /\ calls' = r.calls
       ELSE UNCHANGED << live, calls, retry, expand, access, evaluation >>
    /\ align' = [align EXCEPT !.index = @ + 1]
    /\ UNCHANGED << cmd, cfg, pc, instances, providers, err, dag, executionOrder,
                    driftResults, exec, violations, run, previewChanges,
                    retry, expand, access, evaluation >>

\* runAlignmentOnce: the summary and return nil
AlignTickEnd ==
    /\ cmd = "align"
    /\ pc = "tick"
    /\ align.index > Cardinality(DOMAIN instances)
    /\ pc' = IF cfg.Once THEN "done" ELSE "select"
    /\ err' = NoError
    /\ align' = [align EXCEPT !.active = @ - 1, !.index = 0]
    /\ UNCHANGED << cmd, cfg, instances, providers, live, dag, executionOrder,
                    driftResults, exec, calls, violations, run, previewChanges,
                    retry, expand, access, evaluation >>

NextAlign ==
    \/ AlignInitial
    \/ TickerFire
    \/ AlignNextTick
    \/ AlignDetectDrift
    \/ AlignInstance
    \/ AlignTickEnd

SpecAlign == InitAlign /\ [][NextAlign]_vars

(***************************************************************************)
(* cmd/dismantle.go: runDismantle and executeDeletions on the instance     *)
(* sets of commit, with and without --force.                               *)
(* exec.levelIndex counts the deletion levels entered, exec.received the   *)
(* nodes of the current level already processed.                           *)
(***************************************************************************)
\* The variant that keeps every declared instance.
allInstances(insts, results) == insts

\* The instances whose pre-pass current state exists
existingInstances(insts, results) ==
    [id \in {i \in DOMAIN insts :
                i \in DOMAIN results /\ results[i].CurrentState # Absent}
        |-> insts[id]]

\* The variant that walks the levels first to last.
DeletionLevelForward(order, k) == order[k]

\* The level executeDeletions works on in its k-th pass: i runs from
\* len(executionOrder)-1 down to 0
DeletionLevel(order, k) == order[Len(order) + 1 - k]

InitDismantle ==
    /\ cmd = "dismantle"
    /\ \E force \in BOOLEAN :
          cfg = [Providers |-> {"aws"}, Modules |-> {}, Force |-> force]
    /\ pc = "start"
    /\ \E deps \in [IDs -> UNION {CommitDependsOn(i) : i \in IDs}] :
          /\ \A i \in IDs : deps[i] \in CommitDependsOn(i)
          /\ instances = [id \in IDs |->
                ResourceInstance(id, CommitKind(id), CommitName(id),
                                 CommitProperties(id), NoPolicy, deps[id])]
    /\ providers = {}
    /\ \E l \in [IDs -> UNION {LiveChoices(i) : i \in IDs}] :
          /\ \A i \in IDs : l[i] \in LiveChoices(i)
          /\ live = l
    /\ err = NoError
    /\ dag = NoDAG
    /\ driftResults = NoDrift
    /\ NoExecution

\* runDismantle: parse, provider initialisation, ExpandResources, the
\* pre-pass DetectDriftBatch and the filter to existing resources
DismantleDetect ==
    /\ cmd = "dismantle"
    /\ pc = "start"
    /\ providers' = cfg.Providers
    /\ \E failing \in FailingChoices :
          LET r == DetectDriftBatch(cfg.Providers, live, instances, failing) IN
          /\ driftResults' = r.results
          /\ err' = r.err
          /\ pc' = IF r.err # NoError THEN "failed"
                   ELSE IF DOMAIN existingInstances(instances, r.results) = {}
                   THEN "done"
                   ELSE "approve"
    /\ UNCHANGED << cmd, cfg, instances, live, dag, executionOrder, exec, calls,
                    violations, run, previewChanges, align, retry, expand,
                    access, evaluation >>

\* runDismantle: the user declines; the command returns nil
DismantleDecline ==
    /\ cmd = "dismantle"
    /\ pc = "approve"
    /\ pc' = "cancelled"
    /\ UNCHANGED << cmd, cfg, instances, providers, live, err, dag,
                    executionOrder, driftResults, exec, calls, violations, run,
                    previewChanges, align, retry, expand, access, evaluation >>

\* runDismantle: approval, NewDAG over the existing instances, and
\* executeDeletions up to GetExecutionOrder
DismantleNewDAG ==
    /\ cmd = "dismantle"
    /\ pc = "approve"
    /\ \E r \in NewDAGResults(existingInstances(instances, driftResults)) :
          /\ dag' = r.dag
          /\ err' = r.err
          /\ pc' = IF r.err = NoError THEN "exec" ELSE "failed"
          /\ executionOrder' = IF r.err = NoError THEN GetExecutionOrder(r.dag)
                               ELSE << >>
    /\ exec' = [NoExec EXCEPT !.levelIndex = 1]
    /\ UNCHANGED << cmd, cfg, instances, providers, live, driftResults, calls,
                    violations, run, previewChanges, align, retry, expand,
                    access, evaluation >>

\* The node the inner loop of executeDeletions is at
CurrentDeletion ==
    DeletionLevel(executionOrder, exec.levelIndex)[exec.received + 1]

\* executeDeletions: a pass of the inner loop begins: GetNode and
\* SetNodeStatus(running); a node the DAG does not hold is skipped
DeleteNodeStart ==
    /\ cmd = "dismantle"
    /\ pc = "exec"
    /\ exec.levelIndex <= Len(executionOrder)
    /\ exec.received < Len(DeletionLevel(executionOrder, exec.levelIndex))
    /\ CurrentDeletion \notin DOMAIN exec.worker
    /\ IF CurrentDeletion \notin DOMAIN dag.nodes
       THEN /\ exec' = [exec EXCEPT !.received = @ + 1]
            /\ dag' = dag
       ELSE /\ exec' = [exec EXCEPT
                          !.worker = [id \in {CurrentDeletion} |-> "running"]]
            /\ dag' = SetNodeStatus(dag, CurrentDeletion, "running", NoError)
    /\ UNCHANGED << cmd, cfg, pc, instances, providers, live, err,
                    executionOrder, driftResults, calls, violations, run,
                    previewChanges, align, retry, expand, access, evaluation >>

\* executeDeletions: the rest of the pass: registry.Get, provider.Delete,
\* the final SetNodeStatus and the entry in the result
DeleteNode ==
    /\ cmd = "dismantle"
    /\ pc = "exec"
    /\ exec.levelIndex <= Len(executionOrder)
    /\ exec.received < Len(DeletionLevel(executionOrder, exec.levelIndex))
    /\ CurrentDeletion \in DOMAIN exec.worker
    /\ LET nodeID == CurrentDeletion
           next == [exec EXCEPT !.received = @ + 1, !.worker = << >>]
       IN  IF extractProviderName(dag.nodes[nodeID].Instance.Kind) \notin providers
           THEN LET e == [kind |-> "provider_not_found", node |-> nodeID] IN
                /\ dag' = SetNodeStatus(dag, nodeID, "failed", e)
                /\ exec' = [next EXCEPT !.result.Errors = @ \cup {e},
                                        !.result.Success = FALSE]
                /\ UNCHANGED << live, calls, evaluation >>
           ELSE \E ok \in BOOLEAN :
                LET r == ProviderDelete(live, calls, dag.nodes[nodeID].Instance, ok) IN
                /\ live' = r.live
                /\ calls' = r.calls
                /\ IF r.err # NoError
                   THEN /\ dag' = SetNodeStatus(dag, nodeID, "failed", r.err)
                        /\ exec' = [next EXCEPT
                                      !.result.Errors = @ \cup {r.err},
                                      !.result.Success = IF ~cfg.Force THEN FALSE ELSE @]
                   ELSE /\ dag' = SetNodeStatus(dag, nodeID, "completed", NoError)
                        /\ exec' = [next EXCEPT
                                      !.result.Changes = @ \cup {<< "delete", nodeID >>}]
    /\ UNCHANGED << cmd, cfg, pc, instances, providers, err, executionOrder,
                    driftResults, violations, run, previewChanges, align,
                    retry, expand, access, evaluation >>

\* executeDeletions: the outer loop moves to the next level
NextDeletionLevel ==
    /\ cmd = "dismantle"
    /\ pc = "exec"
    /\ exec.levelIndex <= Len(executionOrder)
    /\ exec.received = Len(DeletionLevel(executionOrder, exec.levelIndex))
    /\ exec' = [exec EXCEPT !.levelIndex = @ + 1, !.received = 0]
    /\ UNCHANGED << cmd, cfg, pc, instances, providers, live, err, dag,
                    executionOrder, driftResults, calls, violations, run,
                    previewChanges, align, retry, expand, access, evaluation >>

\* executeDeletions returns (result, nil); runDismantle returns nil
DismantleReturn ==
    /\ cmd = "dismantle"
    /\ pc = "exec"
    /\ exec.levelIndex > Len(executionOrder)
    /\ pc' = "done"
    /\ err' = NoError
    /\ UNCHANGED << cmd, cfg, instances, providers, live, dag, executionOrder,
                    driftResults, exec, calls, violations, run, previewChanges,
                    align, retry, expand, access, evaluation >>

NextDismantle ==
    \/ DismantleDetect
    \/ DismantleDecline
    \/ DismantleNewDAG
    \/ DeleteNodeStart
    \/ DeleteNode
    \/ NextDeletionLevel
    \/ DismantleReturn

SpecDismantle == InitDismantle /\ [][NextDismantle]_vars

\* The two commands that drive the status of DAG nodes
InitExecution == InitCommit \/ InitDismantle

NextExecution == NextCommit \/ NextDismantle

SpecExecution == InitExecution /\ [][NextExecution]_vars

(***************************************************************************)
(* aws.Provider.retryWithBackoff on every sequence of outcomes of fn.      *)
(* An outcome is "nil" or the text of the error fn returned; delays are in *)
(* seconds.                                                                *)
(***************************************************************************)
maxRetries == 3
baseDelay == 1

isNonRetryableError(errStr) ==
    \/ Contains(errStr, "AuthFailure")
    \/ Contains(errStr, "InvalidUserID.NotFound")
    \/ Contains(errStr, "ValidationException")
    \/ Contains(errStr, "InvalidParameterValue")
    \/ Contains(errStr, "BucketAlreadyExists")
    \/ Contains(errStr, "BucketAlreadyOwnedByYou")

\* The variant whose delay grows by baseDelay per attempt.
backoffDelayLinear(attempt) == baseDelay * (attempt + 1)

\* config.baseDelay * time.Duration(1<<attempt)
backoffDelay(attempt) == baseDelay * 2^attempt

\* Errors the AWS API returns to the operations run under retryWithBackoff
FnErrors ==
    {"RequestTimeout: request timed out",
     "AuthFailure: AWS was not able to validate the provided credentials",
     "ValidationException: 1 validation error detected",
     "BucketAlreadyExists: the requested bucket name is not available",
     "DBInstanceAlreadyExists: DB instance already exists",
     "AccessDenied: user is not authorized to perform this operation"}

FnOutcomes == {"nil"} \cup FnErrors

InitRetry ==
    /\ cmd = "retryWithBackoff"
    /\ cfg = NoCfg
    /\ pc = "call"
    /\ instances = << >>
    /\ providers = {"aws"}
    /\ live = [id \in IDs |-> Absent]
    /\ err = NoError
    /\ dag = NoDAG
    /\ driftResults = NoDrift
    /\ executionOrder = << >>
    /\ exec = NoExec
    /\ calls = NoCalls
    /\ violations = << >>
    /\ run = 1
    /\ previewChanges = -1
    /\ align = NoAlign
    /\ expand = NoExpand
    /\ evaluation = NoEvaluation
    /\ access = NoAccess
    /\ \E c \in BOOLEAN : retry = [NoRetry EXCEPT !.cancellable = c]

\* One pass of the loop up to the select: fn() and the three returns
RetryInvoke ==
    /\ cmd = "retryWithBackoff"
    /\ pc = "call"
    /\ retry.attempt <= maxRetries
    /\ \E outcome \in FnOutcomes :
          /\ retry' = [retry EXCEPT !.results = Append(@, outcome)]
          /\ IF outcome = "nil"
             THEN pc' = "returned" /\ err' = NoError
             ELSE IF isNonRetryableError(outcome)
             THEN pc' = "returned" /\ err' = [kind |-> "non_retryable", node |-> 0]
             ELSE IF retry.attempt = maxRetries
             THEN pc' = "returned" /\ err' = [kind |-> "failed_after_attempts", node |-> 0]
             ELSE pc' = "wait" /\ err' = NoError
    /\ UNCHANGED << cmd, cfg, instances, providers, live, dag, executionOrder,
                    driftResults, exec, calls, violations, run, previewChanges,
                    align, expand, access, evaluation >>

\* The variant of the select that has no case for ctx.Done().
selectCaseTimerOnly(cancelled) == "timer"

\* The select between ctx.Done() and time.After(delay): the delay is a
\* second or more, so the timer is not ready when the select is entered, and
\* a closed Done channel is taken at once
selectCase(cancelled) == IF cancelled THEN "done" ELSE "timer"

\* The caller cancels the context, at any moment before the function returns
CtxCancel ==
    /\ cmd = "retryWithBackoff"
    /\ pc \in {"call", "wait"}
    /\ retry.cancellable
    /\ ~retry.cancelled
    /\ retry' = [retry EXCEPT !.cancelled = TRUE]
    /\ UNCHANGED << cmd, cfg, pc, instances, providers, live, err, dag,
                    executionOrder, driftResults, exec, calls, violations, run,
                    previewChanges, align, expand, access, evaluation >>

\* case <-time.After(delay): the wait is over, the loop goes on
RetryWake ==
    /\ cmd = "retryWithBackoff"
    /\ pc = "wait"
    /\ selectCase(retry.cancelled) = "timer"
    /\ retry' = [retry EXCEPT !.waits = Append(@, backoffDelay(retry.attempt)),
                              !.attempt = @ + 1]
    /\ pc' = "call"
    /\ UNCHANGED << cmd, cfg, instances, providers, live, err, dag,
                    executionOrder, driftResults, exec, calls, violations, run,
                    previewChanges, align, expand, access, evaluation >>

\* case <-ctx.Done(): return ctx.Err()
RetryCancelled ==
    /\ cmd = "retryWithBackoff"
    /\ pc = "wait"
    /\ selectCase(retry.cancelled) = "done"
    /\ pc' = "returned"
    /\ err' = [kind |-> "context_done", node |-> 0]
    /\ UNCHANGED << cmd, cfg, instances, providers, live, dag, executionOrder,
                    driftResults, exec, calls, violations, run, previewChanges,
                    align, retry, expand, access, evaluation >>

NextRetry == RetryInvoke \/ CtxCancel \/ RetryWake \/ RetryCancelled

SpecRetry == InitRetry /\ [][NextRetry]_vars

\* A goroutine blocked in the select is woken when Done is closed
SpecRetryFair == SpecRetry /\ WF_vars(RetryCancelled)

(***************************************************************************)
(* config.Parser: expression evaluation and ExpandResources.               *)
(* Strings are Go strings; positions are counted from 1 and 0 stands for   *)
(* the -1 of strings.Index.  An evaluation ends "ok", with an "error", in  *)
(* a "panic", or never ("hang").                                           *)
(***************************************************************************)
\* F at the value of v: v is computed once, as a Go local is assigned once.
With(v, F(_)) == CHOOSE out \in {F(x) : x \in {v}} : TRUE

IntV(n) == [t |-> "int", v |-> ToString(n), m |-> EmptyMap]
ListV(seq) == [t |-> "list", v |-> "", m |-> seq]

HasSuffix(s, p) ==
    Len(s) >= Len(p) /\ SubSeq(s, Len(s) - Len(p) + 1, Len(s)) = p

\* strings.Index
Index(s, sub) ==
    LET at == {i \in 1..(Len(s) - Len(sub) + 1) :
                  SubSeq(s, i, i + Len(sub) - 1) = sub}
    IN  IF at = {} THEN 0 ELSE SetMin(at)

\* strings.Count for a two-character separator that cannot overlap itself
Count(s, sub) ==
    Cardinality({i \in 1..(Len(s) - Len(sub) + 1) :
                    SubSeq(s, i, i + Len(sub) - 1) = sub})

\* strconv.Atoi on the texts the model produces
RECURSIVE AtoiDigits(_, _)
AtoiDigits(s, acc) ==
    IF s = "" THEN [ok |-> TRUE, n |-> acc]
    ELSE With(Index("0123456789", SubSeq(s, 1, 1)),
              LAMBDA d :
                  IF d = 0 THEN [ok |-> FALSE, n |-> 0]
                  ELSE AtoiDigits(SubSeq(s, 2, Len(s)), acc * 10 + (d - 1)))

Atoi(s) ==
    IF s = "" \/ s = "-" \/ s = "+" THEN [ok |-> FALSE, n |-> 0]
    ELSE IF SubSeq(s, 1, 1) = "-"
    THEN LET r == AtoiDigits(SubSeq(s, 2, Len(s)), 0)
         IN  [ok |-> r.ok, n |-> 0 - r.n]
    ELSE IF SubSeq(s, 1, 1) = "+" THEN AtoiDigits(SubSeq(s, 2, Len(s)), 0)
    ELSE AtoiDigits(s, 0)

\* fmt.Sprintf("%v", value) for scalars and slices of scalars
RECURSIVE SprintJoin(_)
SprintJoin(seq) ==
    IF seq = << >> THEN ""
    ELSE IF Len(seq) = 1 THEN seq[1].v
    ELSE seq[1].v \o " " \o SprintJoin(Tail(seq))

Sprint(value) ==
    IF value.t = "nil" THEN "<nil>"
    ELSE IF value.t = "list" THEN "[" \o SprintJoin(value.m) \o "]"
    ELSE value.v

isSimpleVariable(exprStr) ==
    \A i \in 1..Len(exprStr) :
        SubSeq(exprStr, i, i) \notin
            {" ", "+", "-", "*", "/", "(", ")", "[", "]", "{", "}", "=", "<",
             ">", "!", "&", "|", "?", ":"}

Evaluated(status, value) == [status |-> status, value |-> value]

\* evaluateExpr never returns an error: a name that is not a variable, and
\* an expression expr.Compile or expr.Run rejects, come back as "${...}".
\* The expressions of the model are variable names, so the compiler is
\* only ever given text it rejects.
evaluateExpr(variables, exprStr) ==
    IF exprStr \in DOMAIN variables THEN variables[exprStr]
    ELSE IF isSimpleVariable(exprStr) THEN StrV("${" \o exprStr \o "}")
    ELSE StrV("${" \o exprStr \o "}")

\* The for loop of evaluateExpression.  A pass that leaves result as it was
\* finds the same "${" again: the loop never ends.
RECURSIVE substituteAll(_, _)
substituteAll(variables, result) ==
    LET start == Index(result, "${") IN
    IF start = 0 THEN Evaluated("ok", StrV(result))
    ELSE
        LET rest == SubSeq(result, start, Len(result))
            end == Index(rest, "}")
        IN  IF end = 0 THEN Evaluated("error", NilV)
            ELSE
                LET stop == end + start - 1
                    exprStr == SubSeq(result, start + 2, stop - 1)
                    value == evaluateExpr(variables, exprStr)
                IN  With(SubSeq(result, 1, start - 1) \o Sprint(value)
                             \o SubSeq(result, stop + 1, Len(result)),
                         LAMBDA next :
                             IF next = result THEN Evaluated("hang", NilV)
                             ELSE substituteAll(variables, next))

evaluateExpression(variables, input) ==
    IF ~Contains(input, "${") THEN Evaluated("ok", StrV(input))
    ELSE IF HasPrefix(input, "${") /\ HasSuffix(input, "}")
            /\ Count(input, "${") = 1
    THEN Evaluated("ok",
                   evaluateExpr(variables, SubSeq(input, 3, Len(input) - 1)))
    ELSE substituteAll(variables, input)

\* processValueReflectWithVisited on a value held in an interface{}: a map
\* is processed in place, a slice element by element, and a string that is
\* not a map entry cannot be set and stays.
RECURSIVE processInterface(_, _)
RECURSIVE processMapKeys(_, _, _)
RECURSIVE processSlice(_, _, _)
processMapKeys(variables, m, keys) ==
    IF keys = {} THEN Evaluated("ok", MapV(m))
    ELSE
        LET key == CHOOSE k \in keys : TRUE IN
        With(IF m[key].t = "string"
             THEN evaluateExpression(variables, m[key].v)
             ELSE processInterface(variables, m[key]),
             LAMBDA r :
                 IF r.status # "ok" THEN r
                 ELSE processMapKeys(variables, [m EXCEPT ![key] = r.value],
                                     keys \ {key}))

processSlice(variables, seq, i) ==
    IF i > Len(seq) THEN Evaluated("ok", ListV(seq))
    ELSE With(processInterface(variables, seq[i]),
              LAMBDA r :
                  IF r.status # "ok" THEN r
                  ELSE processSlice(variables, [seq EXCEPT ![i] = r.value],
                                    i + 1))

processInterface(variables, value) ==
    IF value.t = "map" THEN processMapKeys(variables, value.m, DOMAIN value.m)
    ELSE IF value.t = "list" THEN processSlice(variables, value.m, 1)
    ELSE Evaluated("ok", value)

\* The reflect.String case on a settable struct field: a result that is no
\* string is stored with Value.Set, which panics on a string field.
processStringField(variables, str) ==
    With(evaluateExpression(variables, str),
         LAMBDA r :
             IF r.status # "ok" THEN r
             ELSE IF r.value.t = "string" THEN r
             ELSE Evaluated("panic", NilV))

\* config.Resource.  DriftPolicy and DependsOn hold no expression.
Resource(kind, name, count, forEach, props) ==
    [Kind |-> kind, Name |-> name, Count |-> count, ForEach |-> forEach,
     Properties |-> props, DriftPolicy |-> NoPolicy, DependsOn |-> {}]

\* instanceVars: p.variables overlaid with the iteration's variables
instanceVars(variables, iterVars) ==
    [k \in DOMAIN variables \cup DOMAIN iterVars |->
        IF k \in DOMAIN iterVars THEN iterVars[k] ELSE variables[k]]

\* createInstance.  resourceCopy shares the Properties map of the
\* declaration: the map processValue leaves is the one every later
\* iteration starts from.
createInstance(variables, resource, iterVars) ==
    With(instanceVars(variables, iterVars), LAMBDA iv :
    With(IF Contains(resource.Name, "${")
         THEN evaluateExpression(iv, resource.Name)
         ELSE Evaluated("ok", StrV(resource.Name)), LAMBDA direct :
    IF direct.status # "ok" THEN [status |-> direct.status]
    ELSE
    With(IF direct.value.t = "string" THEN direct.value.v ELSE resource.Name,
         LAMBDA name1 :
    With(processStringField(iv, resource.Kind), LAMBDA kind :
    IF kind.status # "ok" THEN [status |-> kind.status]
    ELSE
    With(processStringField(iv, name1), LAMBDA name :
    IF name.status # "ok" THEN [status |-> name.status]
    ELSE
    With(processMapKeys(iv, resource.Properties, DOMAIN resource.Properties),
         LAMBDA props :
    IF props.status # "ok" THEN [status |-> props.status]
    ELSE [status |-> "ok",
          Properties |-> props.value.m,
          instance |->
              ResourceInstance(kind.value.v \o "." \o name.value.v,
                               kind.value.v, name.value.v, props.value.m,
                               resource.DriftPolicy, resource.DependsOn)]))))))

resolveCount(variables, count) ==
    IF count.t = "int" THEN [ok |-> TRUE, n |-> Atoi(count.v).n]
    ELSE IF count.t = "string"
    THEN LET result == evaluateExpr(variables, count.v)
         IN  IF result.t = "int" THEN [ok |-> TRUE, n |-> Atoi(result.v).n]
             ELSE IF result.t = "string" THEN Atoi(result.v)
             ELSE [ok |-> FALSE, n |-> 0]
    ELSE [ok |-> FALSE, n |-> 0]

resolveForEach(variables, forEach) ==
    IF forEach.t = "list" THEN [ok |-> TRUE, items |-> forEach.m]
    ELSE IF forEach.t = "string"
    THEN IF HasPrefix(forEach.v, "${") /\ HasSuffix(forEach.v, "}")
         THEN LET result ==
                      evaluateExpr(variables,
                                   SubSeq(forEach.v, 3, Len(forEach.v) - 1))
              IN  IF result.t = "list" THEN [ok |-> TRUE, items |-> result.m]
                  ELSE [ok |-> FALSE, items |-> << >>]
         ELSE [ok |-> TRUE, items |-> << StrV(forEach.v) >>]
    ELSE [ok |-> FALSE, items |-> << >>]

\* The variables an iteration of for_each binds
forEachVars(item) ==
    IF item.t = "string" THEN [k \in {"region"} |-> item]
    ELSE [k \in {"item"} |-> item]

\* The loop of expandResource over the variables of its iterations
RECURSIVE createInstances(_, _, _, _)
createInstances(variables, resource, iterations, done) ==
    IF iterations = << >>
    THEN [status |-> "ok",
          Properties |-> resource.Properties,
          instances |-> [k \in 1..Len(done) |->
                            [done[k] EXCEPT !.Properties = resource.Properties]]]
    ELSE With(createInstance(variables, resource, Head(iterations)),
              LAMBDA r :
                  IF r.status # "ok" THEN [status |-> r.status]
                  ELSE createInstances(
                           variables,
                           [resource EXCEPT !.Properties = r.Properties],
                           Tail(iterations), Append(done, r.instance)))

expandResource(variables, resource) ==
    IF resource.Count # NilV
    THEN LET count == resolveCount(variables, resource.Count)
         IN  IF ~count.ok THEN [status |-> "error"]
             ELSE createInstances(variables, resource,
                                  [i \in 1..count.n |->
                                      [k \in {"index"} |-> IntV(i - 1)]],
                                  << >>)
    ELSE IF resource.ForEach # NilV
    THEN LET each == resolveForEach(variables, resource.ForEach)
         IN  IF ~each.ok THEN [status |-> "error"]
             ELSE createInstances(variables, resource,
                                  [i \in 1..Len(each.items) |->
                                      forEachVars(each.items[i])],
                                  << >>)
    ELSE createInstances(variables, resource, << EmptyMap >>, << >>)

(***************************************************************************)
(* ExpandResources on every list of declarations built from the names,     *)
(* properties, counts and for_each values below, with the variables Parse  *)
(* leaves in the parser.                                                   *)
(***************************************************************************)
ParserVariables ==
    [environment |-> StrV("dev"), project |-> StrV("demo"),
     replicas |-> IntV(2), regions |-> ListV(<< StrV("a"), StrV("b") >>)]

ExpandNames == {"web", "web-${index}", "logs-${region}", "${item}"}

ExpandProperties ==
    {[versioning |-> BoolV(TRUE)],
     [tag |-> StrV("${index}")],
     [tag |-> StrV("${item}")],
     [tags |-> MapV([Name |-> StrV("${region}")])]}

ExpandItems == {StrV("a"), IntV(7)}

ItemSequences ==
    UNION {[1..n -> ExpandItems] : n \in 0..MaxItems}

CountChoices ==
    {IntV(c) : c \in -1..MaxCount} \cup {StrV("replicas"), StrV("copies")}

ForEachChoices ==
    {ListV(seq) : seq \in ItemSequences}
        \cup {StrV("${regions}"), StrV("${missing}"), StrV("us")}

Declarations ==
    {Resource("aws:s3:bucket", name, m[1], m[2], props) :
        name \in ExpandNames,
        m \in {<< NilV, NilV >>}
                 \cup {<< c, NilV >> : c \in CountChoices}
                 \cup {<< NilV, f >> : f \in ForEachChoices},
        props \in ExpandProperties}

InitExpand ==
    /\ cmd = "ExpandResources"
    /\ cfg = NoCfg
    /\ pc = "loop"
    /\ instances = << >>
    /\ providers = {}
    /\ live = [id \in IDs |-> Absent]
    /\ err = NoError
    /\ dag = NoDAG
    /\ driftResults = NoDrift
    /\ executionOrder = << >>
    /\ exec = NoExec
    /\ calls = NoCalls
    /\ violations = << >>
    /\ run = 1
    /\ previewChanges = -1
    /\ align = NoAlign
    /\ retry = NoRetry
    /\ evaluation = NoEvaluation
    /\ access = NoAccess
    /\ \E n \in 1..MaxResources :
          \E resources \in [1..n -> Declarations] :
              expand = [NoExpand EXCEPT !.resources = resources,
                                        !.variables = ParserVariables]

\* One pass of the loop of ExpandResources: expandResource and the append
ExpandNextResource ==
    /\ cmd = "ExpandResources"
    /\ pc = "loop"
    /\ expand.index < Len(expand.resources)
    /\ \E i \in {expand.index + 1} :
       \E expanded \in {expandResource(expand.variables, expand.resources[i])} :
           IF expanded.status = "ok"
           THEN /\ expand' =
                       [expand EXCEPT
                           !.index = i,
                           !.resources[i].Properties = expanded.Properties,
                           !.perResource = Append(@, expanded.instances),
                           !.instances = @ \o expanded.instances]
                /\ UNCHANGED << pc, err, access, evaluation >>
           ELSE /\ expand' = [expand EXCEPT !.index = i,
                                            !.instances = << >>]
                /\ pc' = IF expanded.status = "error" THEN "returned"
                         ELSE IF expanded.status = "hang" THEN "hung"
                         ELSE "panicked"
                /\ err' = IF expanded.status = "error"
                          THEN [kind |-> "expand_error", node |-> i]
                          ELSE err
    /\ UNCHANGED << cmd, cfg, instances, providers, live, dag, executionOrder,
                    driftResults, exec, calls, violations, run, previewChanges,
                    align, retry, access, evaluation >>

\* return instances, nil
ExpandReturn ==
    /\ cmd = "ExpandResources"
    /\ pc = "loop"
    /\ expand.index = Len(expand.resources)
    /\ pc' = "returned"
    /\ UNCHANGED << cmd, cfg, instances, providers, live, err, dag,
                    executionOrder, driftResults, exec, calls, violations, run,
                    previewChanges, align, retry, expand, access, evaluation >>

NextExpand == ExpandNextResource \/ ExpandReturn

SpecExpand == InitExpand /\ [][NextExpand]_vars

(***************************************************************************)
(* evaluateExpression on the strings made of a prefix, a fragment and a    *)
(* suffix, with the variables of the document and those of an instance.    *)
(***************************************************************************)
EvaluatePrefixes == {"", "web-", "s3://"}

EvaluateFragments ==
    {"${index}", "${environment}", "${missing}", "${region}", "plain"}

EvaluateSuffixes == {"", "-x", "-${project}"}

EvaluateVariables ==
    {ParserVariables,
     [k \in DOMAIN ParserVariables \cup {"index"} |->
         IF k = "index" THEN IntV(0) ELSE ParserVariables[k]]}

EvaluateInput == evaluation.parts[1] \o evaluation.parts[2] \o evaluation.parts[3]

InitEvaluate ==
    /\ cmd = "evaluateExpression"
    /\ cfg = NoCfg
    /\ pc = "evaluate"
    /\ instances = << >>
    /\ providers = {}
    /\ live = [id \in IDs |-> Absent]
    /\ err = NoError
    /\ dag = NoDAG
    /\ driftResults = NoDrift
    /\ executionOrder = << >>
    /\ exec = NoExec
    /\ calls = NoCalls
    /\ violations = << >>
    /\ run = 1
    /\ previewChanges = -1
    /\ align = NoAlign
    /\ retry = NoRetry
    /\ expand = NoExpand
    /\ access = NoAccess
    /\ \E a \in EvaluatePrefixes, b \in EvaluateFragments,
          c \in EvaluateSuffixes, variables \in EvaluateVariables :
          evaluation = [NoEvaluation EXCEPT !.parts = << a, b, c >>,
                                            !.variables = variables]

\* p.evaluateExpression(input): the call returns, or never does
Evaluate ==
    /\ cmd = "evaluateExpression"
    /\ pc = "evaluate"
    /\ \E r \in {evaluateExpression(evaluation.variables, EvaluateInput)} :
          /\ evaluation' = [evaluation EXCEPT !.status = r.status,
                                              !.value = r.value]
          /\ pc' = IF r.status = "hang" THEN "hung" ELSE "evaluated"
    /\ UNCHANGED << cmd, cfg, instances, providers, live, err, dag,
                    executionOrder, driftResults, exec, calls, violations, run,
                    previewChanges, align, retry, expand, access >>

NextEvaluate == Evaluate

SpecEvaluate == InitEvaluate /\ [][NextEvaluate]_vars

(***************************************************************************)
(* DAG.SetNodeStatus against a reader that gets the node from GetNode,     *)
(* GetAllNodes, GetReadyNodes or GetFailedNodes and then reads its Status  *)
(* and Error, on the one-node DAG of TestDAG_SetNodeStatus.  The getters   *)
(* hold the read lock only while they fetch the *DAGNode; the reader's     *)
(* field reads are outside it.  A read that races with the write of the    *)
(* field yields the old or the new value.                                  *)
(***************************************************************************)
StatusPair(status, e) == [Status |-> status, Error |-> e]

\* The (status, error) arguments of SetNodeStatus in executeChanges
Transitions ==
    {StatusPair("running", NoError), StatusPair("completed", NoError),
     StatusPair("failed", [kind |-> "provider_error", node |-> 1])}

Getters == {"GetNode", "GetAllNodes", "GetReadyNodes", "GetFailedNodes"}

\* Whether the getter hands out the node in the DAG's present state
GetterReturns(via, node) ==
    IF via = "GetReadyNodes"
    THEN node.Status = "pending"
            /\ \A i \in 1..Len(node.Dependencies) :
                  dag.nodes[node.Dependencies[i]].Status = "completed"
    ELSE IF via = "GetFailedNodes" THEN node.Status = "failed"
    ELSE TRUE

InitNodeStatus ==
    /\ cmd = "SetNodeStatus"
    /\ cfg = NoCfg
    /\ pc = "start"
    /\ instances = [id \in {1} |->
          ResourceInstance(1, "aws:s3:bucket", "test", EmptyMap, NoPolicy,
                           << >>)]
    /\ providers = {}
    /\ live = [id \in IDs |-> Absent]
    /\ err = NoError
    /\ dag = NewDAG(instances, << 1 >>).dag
    /\ driftResults = NoDrift
    /\ NoExecution

\* SetNodeStatus: d.mutex.Lock()
WriterLock ==
    /\ cmd = "SetNodeStatus"
    /\ access.wpc = "idle"
    /\ access.transitions < MaxTransitions
    /\ ~access.writer
    /\ \E t \in Transitions :
          access' = [access EXCEPT !.writer = TRUE, !.wpc = "locked",
                                   !.target = t]
    /\ UNCHANGED << cmd, cfg, pc, instances, providers, live, err, dag,
                    executionOrder, driftResults, exec, calls, violations, run,
                    previewChanges, align, retry, expand, evaluation >>

\* SetNodeStatus: node.Status = status
WriterSetStatus ==
    /\ cmd = "SetNodeStatus"
    /\ access.wpc = "locked"
    /\ dag' = [dag EXCEPT !.nodes[1].Status = access.target.Status]
    /\ access' = [access EXCEPT !.wpc = "wroteStatus"]
    /\ UNCHANGED << cmd, cfg, pc, instances, providers, live, err,
                    executionOrder, driftResults, exec, calls, violations, run,
                    previewChanges, align, retry, expand, evaluation >>

\* SetNodeStatus: node.Error = err, and the deferred d.mutex.Unlock()
WriterSetErrorAndUnlock ==
    /\ cmd = "SetNodeStatus"
    /\ access.wpc = "wroteStatus"
    /\ dag' = [dag EXCEPT !.nodes[1].Error = access.target.Error]
    /\ access' = [access EXCEPT !.wpc = "idle", !.writer = FALSE,
                                !.transitions = @ + 1,
                                !.held = @ \cup {access.target}]
    /\ UNCHANGED << cmd, cfg, pc, instances, providers, live, err,
                    executionOrder, driftResults, exec, calls, violations, run,
                    previewChanges, align, retry, expand, evaluation >>

\* A getter from RLock to RUnlock: no writer holds the mutex meanwhile
ReaderGet ==
    /\ cmd = "SetNodeStatus"
    /\ access.rpc = "idle"
    /\ access.reads < MaxReads
    /\ ~access.writer
    /\ \E via \in Getters :
          /\ GetterReturns(via, dag.nodes[1])
          /\ access' = [access EXCEPT !.rpc = "hasNode", !.via = via,
                                      !.reads = @ + 1, !.raced = FALSE]
    /\ UNCHANGED << cmd, cfg, pc, instances, providers, live, err, dag,
                    executionOrder, driftResults, exec, calls, violations, run,
                    previewChanges, align, retry, expand, evaluation >>

\* The reader evaluates node.Status
ReaderReadStatus ==
    /\ cmd = "SetNodeStatus"
    /\ access.rpc = "hasNode"
    /\ \E status \in {dag.nodes[1].Status}
                        \cup (IF access.wpc = "locked"
                              THEN {access.target.Status} ELSE {}) :
          access' = [access EXCEPT !.rpc = "readStatus",
                                   !.seen.Status = status,
                                   !.raced = @ \/ access.writer]
    /\ UNCHANGED << cmd, cfg, pc, instances, providers, live, err, dag,
                    executionOrder, driftResults, exec, calls, violations, run,
                    previewChanges, align, retry, expand, evaluation >>

\* The reader evaluates node.Error
ReaderReadError ==
    /\ cmd = "SetNodeStatus"
    /\ access.rpc = "readStatus"
    /\ \E e \in {dag.nodes[1].Error}
                   \cup (IF access.wpc = "wroteStatus"
                         THEN {access.target.Error} ELSE {}) :
          access' = [access EXCEPT !.rpc = "done", !.seen.Error = e,
                                   !.raced = @ \/ access.writer]
    /\ UNCHANGED << cmd, cfg, pc, instances, providers, live, err, dag,
                    executionOrder, driftResults, exec, calls, violations, run,
                    previewChanges, align, retry, expand, evaluation >>

\* The reader goes on to its next getter call
ReaderAgain ==
    /\ cmd = "SetNodeStatus"
    /\ access.rpc = "done"
    /\ access' = [access EXCEPT !.rpc = "idle"]
    /\ UNCHANGED << cmd, cfg, pc, instances, providers, live, err, dag,
                    executionOrder, driftResults, exec, calls, violations, run,
                    previewChanges, align, retry, expand, evaluation >>

NextNodeStatus ==
    \/ WriterLock
    \/ WriterSetStatus
    \/ WriterSetErrorAndUnlock
    \/ ReaderGet
    \/ ReaderReadStatus
    \/ ReaderReadError
    \/ ReaderAgain

SpecNodeStatus == InitNodeStatus /\ [][NextNodeStatus]_vars

(***************************************************************************)
(* Claims about drift detection and auto-heal (SpecDrift)                  *)
(***************************************************************************)
TenMetadataNames ==
    {"arn", "id", "creation_date", "last_modified", "status", "state",
     "availability_zone", "instance_id", "vpc_id", "subnet_id"}

HasDiff(diffs, k, type) == k \in DOMAIN diffs /\ diffs[k].DriftType = type

\* C9: DetectDrift computes the reference diff: for an absent resource
\* hasDrift is true and differences is empty; otherwise differences holds
\* exactly an added entry per key only in desired, a modified entry per key
\* in both with unequal values and a removed entry per key only in current
\* that is not one of the ten metadata names, and hasDrift is true iff
\* differences is non-empty.
C9_ReferenceDiff ==
    (cmd = "DetectDrift" /\ pc = "detected") =>
        LET r == driftResults[1]
            current == live[1]
            desired == instances[1].Properties
            diffs == r.Differences
        IN  IF current = Absent
            THEN r.HasDrift /\ DOMAIN diffs = {}
            ELSE /\ \A k \in DOMAIN current \cup DOMAIN desired \cup DOMAIN diffs :
                       LET inC == k \in DOMAIN current
                           inD == k \in DOMAIN desired
                       IN  /\ HasDiff(diffs, k, "added") <=> (inD /\ ~inC)
                           /\ HasDiff(diffs, k, "modified") <=>
                                 (inC /\ inD /\ current[k] # desired[k])
                           /\ HasDiff(diffs, k, "removed") <=>
                                 (inC /\ ~inD /\ k \notin TenMetadataNames)
                           /\ k \in DOMAIN diffs =>
                                 /\ diffs[k].Property = k
                                 /\ diffs[k].DriftType \in {"added", "modified", "removed"}
                 /\ r.HasDrift <=> (DOMAIN diffs # {})

\* A diff with a modified key where the live state also carries subnet_id,
\* which the desired state does not declare.
C9_Witness ==
    /\ cmd = "DetectDrift" /\ pc = "detected"
    /\ live[1] # Absent
    /\ "subnet_id" \in DOMAIN live[1]
    /\ "subnet_id" \notin DOMAIN instances[1].Properties
    /\ HasDiff(driftResults[1].Differences, "versioning", "modified")
    /\ "subnet_id" \notin DOMAIN driftResults[1].Differences

\* C10: AutoHeal with autoHeal enabled calls create once (no update) when the
\* drift result's current state is absent, update once with that current
\* state (no create) when the resource exists with drift, and neither
\* without drift; with no drift policy or autoHeal false it calls neither
\* and returns no error.
C10_AutoHealAction ==
    (cmd = "DetectDrift" /\ pc = "healed") =>
        LET r == driftResults[1]
            policy == instances[1].DriftPolicy
            c == calls[1]
        IN  /\ c.delete = 0
            /\ IF ~policy.set \/ ~policy.AutoHeal
               THEN c.create = 0 /\ c.update = 0 /\ err = NoError
               ELSE IF r.CurrentState = Absent
               THEN c.create = 1 /\ c.update = 0
               ELSE IF r.HasDrift
               THEN c.create = 0 /\ c.update = 1 /\ c.updateArg = r.CurrentState
               ELSE c.create = 0 /\ c.update = 0

\* AutoHeal updated a drifted resource.
C10_Witness ==
    /\ cmd = "DetectDrift" /\ pc = "healed"
    /\ instances[1].DriftPolicy.AutoHeal
    /\ calls[1].update = 1
    /\ live[1] = instances[1].Properties

(***************************************************************************)
(* Claims about bootstrap (SpecBootstrap)                                  *)
(***************************************************************************)
\* Some instance violates a rule of severity error.
ErrorViolationExists ==
    \E id \in DOMAIN instances, i \in 1..Len(builtinRules) :
        /\ builtinRules[i].Severity = "error"
        /\ evaluateRule(builtinRules[i], instances[id])

\* Every (instance, rule) pair in violation.
ViolatingPairs ==
    {<< q[1], builtinRules[q[2]].Name >> :
        q \in {q \in (DOMAIN instances) \X (1..Len(builtinRules)) :
                  evaluateRule(builtinRules[q[2]], instances[q[1]])}}

PolicyGateReached ==
    pc \in {"modules", "done"} \/ err.kind \in {"policy_violations", "module_failed"}

\* C7: bootstrap's policy gate fails the command iff some violation over all
\* instances has severity error; with only warning or info violations they
\* are reported and the gate lets bootstrap succeed; bootstrap never issues
\* a provider create, update or delete.
C7_PolicyGate ==
    cmd = "bootstrap" =>
        /\ calls = NoCalls
        /\ \A id \in IDs : live[id] = Absent
        /\ PolicyGateReached =>
              /\ (err.kind = "policy_violations") <=> ErrorViolationExists
              /\ {<< violations[i].ResourceID, violations[i].Rule >> :
                     i \in 1..Len(violations)} = ViolatingPairs
        /\ (PolicyGateReached /\ ~ErrorViolationExists /\ cfg.Modules = {}) =>
              /\ pc \in {"modules", "done"}
              /\ err = NoError

\* Bootstrap succeeded and reported warnings.
C7_Witness ==
    /\ cmd = "bootstrap" /\ pc = "done" /\ err = NoError
    /\ Len(violations) >= 2
    /\ \A i \in 1..Len(violations) : violations[i].Severity = "warning"

(***************************************************************************)
(* Claims about commit (SpecCommit)                                        *)
(***************************************************************************)
\* C1: when a node's create or update failed, no create or update is issued
\* for any node that depends on it directly or transitively; such a node
\* never is running and is not completed.
C1_DependentsOfFailedNodeNotExecuted ==
    (cmd = "commit" /\ dag.built) =>
        \A f \in DOMAIN dag.nodes, d \in DOMAIN dag.nodes :
            (/\ dag.nodes[f].Status = "failed"
             /\ f \in Ancestors(NodeRelation(dag.nodes), d)) =>
                /\ calls[d].create = 0
                /\ calls[d].update = 0
                /\ dag.nodes[d].Status \notin {"running", "completed"}

ExpectedCreate(id) == IF driftResults[id].CurrentState = Absent THEN 1 ELSE 0

ExpectedUpdate(id) ==
    IF driftResults[id].CurrentState # Absent /\ driftResults[id].HasDrift
    THEN 1 ELSE 0

\* C5: during commit the provider action of every instance follows its drift
\* result: one create and no update when the current state is absent, one
\* update with the observed current state and no create when the resource
\* exists with drift, neither when it exists without drift.
C5_ActionFromDrift ==
    (cmd = "commit" /\ pc \in {"exec", "done"}) =>
        \A id \in DOMAIN dag.nodes :
            /\ calls[id].create <= ExpectedCreate(id)
            /\ calls[id].update <= ExpectedUpdate(id)
            /\ calls[id].delete = 0
            /\ calls[id].update = 1 =>
                  calls[id].updateArg = driftResults[id].CurrentState
            /\ (pc = "done" \/ dag.nodes[id].Status \in {"completed", "failed"}) =>
                  /\ calls[id].create = ExpectedCreate(id)
                  /\ calls[id].update = ExpectedUpdate(id)

\* A commit that created one instance, updated another and left a third.
C5_Witness ==
    /\ cmd = "commit" /\ pc = "done"
    /\ \E a, b, c \in DOMAIN dag.nodes :
          /\ calls[a].create = 1 /\ calls[a].update = 0
          /\ calls[b].update = 1 /\ calls[b].create = 0
          /\ calls[b].updateArg = DriftedState(b)
          /\ calls[c].create = 0 /\ calls[c].update = 0

AllNodesSucceeded ==
    /\ dag.built
    /\ exec.result.Success
    /\ \A id \in DOMAIN dag.nodes : dag.nodes[id].Status = "completed"

\* C6: commit is idempotent: after a commit in which every node succeeded a
\* fresh drift detection reports no drift for every instance, the following
\* preview reports zero changes, and the second commit issues no create and
\* no update.
C6_CommitIdempotent ==
    cmd = "commit" =>
        /\ (pc = "done" /\ AllNodesSucceeded) =>
              \A id \in DOMAIN instances :
                  LET r == DetectDrift(providers, live, instances[id], TRUE) IN
                  r.err = NoError /\ ~r.result.HasDrift
        /\ pc = "previewed" => previewChanges = 0
        /\ run >= 2 =>
              \A id \in IDs : calls[id].create = 0 /\ calls[id].update = 0

\* A commit that created one instance and updated another, every node
\* succeeding, was followed by a preview.
C6_Witness ==
    /\ cmd = "commit" /\ pc = "previewed" /\ run = 1
    /\ AllNodesSucceeded
    /\ \E a, b \in DOMAIN dag.nodes :
          /\ << "create", a >> \in exec.result.Changes
          /\ << "update", b >> \in exec.result.Changes
    /\ previewChanges = 0

\* C8: when some expanded instance has an error-severity policy violation,
\* commit issues no provider create and no provider update.
C8_NoExecutionPastPolicyGate ==
    (cmd = "commit" /\ ErrorViolationExists) =>
        \A id \in IDs : calls[id].create = 0 /\ calls[id].update = 0

(***************************************************************************)
(* Claims about align (SpecAlign)                                          *)
(***************************************************************************)
AlignLoopFinished ==
    cmd = "align" /\ pc = "tick" /\ align.index > Cardinality(DOMAIN instances)

\* C11: in one align tick every instance that has drift and whose
\* driftPolicy.autoHeal is true gets create (absent) or update (present),
\* whatever notifyOnly is; only instances with autoHeal false are
\* report-only.
C11_AutoHealWhateverNotifyOnly ==
    AlignLoopFinished =>
        \A id \in DOMAIN instances :
            LET r == driftResults[id]
                policy == instances[id].DriftPolicy
            IN  IF r.HasDrift /\ policy.set /\ policy.AutoHeal
                THEN IF r.CurrentState = Absent
                     THEN calls[id].create = 1 /\ calls[id].update = 0
                     ELSE calls[id].create = 0 /\ calls[id].update = 1
                ELSE calls[id].create = 0 /\ calls[id].update = 0

\* C12: in continuous align at most one alignment tick is in progress at
\* any time, also when the interval elapses while a tick is running.
C12_NoTickOverlap ==
    cmd = "align" =>
        /\ align.active <= 1
        /\ align.active = 1 <=> pc \in {"detect", "tick"}

\* The interval elapsed while the second tick was still running.
C12_Witness ==
    /\ cmd = "align" /\ ~cfg.Once
    /\ pc = "tick"
    /\ align.ticks = 2
    /\ align.active = 1
    /\ align.tickerC = 1

(***************************************************************************)
(* Claims about dismantle (SpecDismantle)                                  *)
(***************************************************************************)
\* The deletion level (1 = entered first) that holds the node
DeletionLevelOf(id) ==
    {k \in 1..Len(executionOrder) :
        id \in Range(executionOrder[Len(executionOrder) + 1 - k])}

\* C13: during dismantle a delete is issued only for instances whose
\* pre-pass current state existed, and the delete of an instance is issued
\* only after a delete has been attempted for every such instance that
\* depends on it.
C13_DeleteDependentsFirst ==
    cmd = "dismantle" =>
        \A id \in IDs :
            calls[id].delete >= 1 =>
                /\ calls[id].delete = 1
                /\ id \in DOMAIN driftResults
                /\ driftResults[id].CurrentState # Absent
                /\ \A d \in DOMAIN existingInstances(instances, driftResults) :
                      id \in Ancestors(DepRelation(
                                existingInstances(instances, driftResults)), d)
                          => calls[d].delete = 1

\* Three existing instances in a chain were deleted, the last dependent
\* first.
C13_Witness ==
    /\ cmd = "dismantle" /\ pc = "done"
    /\ Len(executionOrder) = 3
    /\ \A id \in DOMAIN dag.nodes : calls[id].delete = 1

\* C14: with force off a delete failure in a level makes the result a
\* failure and no later level is entered; with force on every node of
\* every later level still gets its delete attempted.
C14_ForceDecidesContinuation ==
    (cmd = "dismantle" /\ dag.built) =>
        /\ ~cfg.Force =>
              \A f \in DOMAIN dag.nodes, d \in DOMAIN dag.nodes :
                  (/\ dag.nodes[f].Status = "failed"
                   /\ \E kf \in DeletionLevelOf(f), kd \in DeletionLevelOf(d) : kf < kd)
                      => /\ calls[d].delete = 0
                         /\ ~exec.result.Success
        /\ (cfg.Force /\ pc = "done") =>
              \A d \in DOMAIN dag.nodes : calls[d].delete = 1

(***************************************************************************)
(* Claims about retryWithBackoff (SpecRetry)                               *)
(***************************************************************************)
\* The delays waited before the 2nd, 3rd and 4th invocation, in seconds
ExpectedWaits == << 1, 2, 4 >>

\* C15: retryWithBackoff invokes the operation at most 4 times, returns
\* success at the first successful invocation without further calls, waits
\* 1s, 2s and 4s before the 2nd, 3rd and 4th invocation, and returns an
\* error after the 4th consecutive failure.
C15_FourAttemptsDoublingDelay ==
    cmd = "retryWithBackoff" =>
        LET n == Len(retry.results) IN
        /\ n <= 4
        /\ \A i \in 1..n :
              retry.results[i] = "nil" =>
                  i = n /\ pc = "returned" /\ err = NoError
        /\ Len(retry.waits) <= 3
        /\ \A i \in 1..Len(retry.waits) : retry.waits[i] = ExpectedWaits[i]
        /\ Len(retry.waits) = (IF pc = "call" THEN n ELSE n - 1)
        /\ (n = 4 /\ retry.results[4] # "nil") =>
              pc = "returned" /\ err # NoError
        /\ (pc = "returned" /\ err = NoError) => retry.results[n] = "nil"

\* Four transient failures in a row: three waits and an error.
C15_Witness ==
    /\ cmd = "retryWithBackoff" /\ pc = "returned"
    /\ Len(retry.results) = 4
    /\ retry.waits = << 1, 2, 4 >>
    /\ err.kind = "failed_after_attempts"

\* The category the provider contract gives an API error
ErrorCategory(errStr) ==
    IF Contains(errStr, "AuthFailure") THEN "authentication"
    ELSE IF Contains(errStr, "ValidationException") THEN "validation"
    ELSE IF Contains(errStr, "AlreadyExists") THEN "already_exists"
    ELSE IF Contains(errStr, "AccessDenied") THEN "permanent"
    ELSE "transient"

\* C16: the operation is re-invoked only after a transient error: an
\* authentication, validation, already-exists or permanent error is returned
\* at once, with no invocation and no backoff wait after it.
C16_RetryOnlyTransient ==
    cmd = "retryWithBackoff" =>
        \A i \in 1..Len(retry.results) :
            (retry.results[i] # "nil"
                /\ ErrorCategory(retry.results[i]) # "transient") =>
                /\ i = Len(retry.results)
                /\ Len(retry.waits) = i - 1
                /\ pc = "returned"
                /\ err # NoError

(***************************************************************************)
(* Claims about ExpandResources (SpecExpand)                               *)
(***************************************************************************)
ExpandSucceeded ==
    cmd = "ExpandResources" /\ pc = "returned" /\ err = NoError

\* C17: when ExpandResources returns successfully, the IDs of the returned
\* instances are pairwise distinct.
C17_UniqueInstanceIDs ==
    ExpandSucceeded =>
        \A i, j \in 1..Len(expand.instances) :
            i # j => expand.instances[i].ID # expand.instances[j].ID

\* A "${" left in a value, at any depth
RECURSIVE Unresolved(_)
Unresolved(value) ==
    IF value.t = "string" THEN Contains(value.v, "${")
    ELSE IF value.t \in {"map", "list"}
    THEN \E k \in DOMAIN value.m : Unresolved(value.m[k])
    ELSE FALSE

\* C18: when ExpandResources returns successfully, no instance name and no
\* property value at any depth contains "${", and a property written
\* "${index}" holds, in the k-th instance of a count declaration, the index
\* of that iteration.
C18_FullySubstituted ==
    ExpandSucceeded =>
        /\ \A i \in 1..Len(expand.instances) :
              /\ ~Contains(expand.instances[i].Name, "${")
              /\ ~Unresolved(MapV(expand.instances[i].Properties))
        /\ \A d \in 1..Len(expand.perResource) :
              \A k \in 1..Len(expand.perResource[d]) :
                  LET props == expand.perResource[d][k].Properties IN
                  (expand.resources[d].Count.t = "int"
                      /\ "tag" \in DOMAIN props /\ props.tag.t = "int") =>
                      props.tag = IntV(k - 1)

\* The variables an iteration of for_each is to bind: item always, region
\* in addition for a string.
ItemBinding(item) ==
    IF item.t = "string" THEN [k \in {"item", "region"} |-> item]
    ELSE [k \in {"item"} |-> item]

\* C19: a for_each declaration over the sequence S expands to |S| instances
\* in the order of S, and the name of the k-th is its name template with
\* item bound to S[k].
C19_ForEachBindsItem ==
    cmd = "ExpandResources" =>
        \A d \in 1..Len(expand.perResource) :
            LET resource == expand.resources[d]
                S == resolveForEach(expand.variables, resource.ForEach).items
                out == expand.perResource[d]
            IN  (resource.Count = NilV /\ resource.ForEach # NilV) =>
                    /\ Len(out) = Len(S)
                    /\ \A k \in 1..Len(S) :
                          LET expected ==
                                  evaluateExpression(
                                      instanceVars(expand.variables,
                                                   ItemBinding(S[k])),
                                      resource.Name)
                          IN  expected.status = "ok" =>
                                  out[k].Name = Sprint(expected.value)

\* C20: a declaration with count = 0 expands to no instance and no error,
\* and one with a negative count makes ExpandResources return an error and
\* no instance list.
C20_CountZeroOrNegative ==
    cmd = "ExpandResources" =>
        \A d \in 1..expand.index :
            LET count == expand.resources[d].Count IN
            count.t = "int" =>
                /\ Atoi(count.v).n = 0 =>
                      /\ d <= Len(expand.perResource)
                      /\ expand.perResource[d] = << >>
                /\ Atoi(count.v).n < 0 =>
                      /\ pc = "returned" /\ err # NoError
                      /\ expand.instances = << >>

(***************************************************************************)
(* Claims about the outcome and the phases of commit (SpecCommit)          *)
(***************************************************************************)
FailedNodes == {id \in DOMAIN dag.nodes : dag.nodes[id].Status = "failed"}

\* C21: when at least one node failed during the execution of commit, the
\* command ends with a non-nil error, and it ends only when no node is
\* running any more.
C21_NodeFailureEndsCommitWithError ==
    (cmd = "commit" /\ pc = "done") =>
        /\ FailedNodes # {} => err # NoError
        /\ \A id \in DOMAIN dag.nodes : dag.nodes[id].Status # "running"

(***************************************************************************)
(* Claims about SetNodeStatus and its readers (SpecNodeStatus)             *)
(***************************************************************************)
\* The pairs the node has held, and the one a call under way is writing
PairsOfNode ==
    {StatusPair("pending", NoError)} \cup access.held
        \cup (IF access.writer THEN {access.target} ELSE {})

\* C22: a reader that got the node from a getter observes a (status, error)
\* pair the node held before or after a transition, never a mix of two, and
\* reads no field while SetNodeStatus holds the mutex to write the node.
C22_ReadersSeeWholeTransitions ==
    (cmd = "SetNodeStatus" /\ access.rpc = "done") =>
        /\ access.seen \in PairsOfNode
        /\ ~access.raced

Terminal(id) == dag.nodes[id].Status \in {"completed", "failed"}

\* C23: during commit a node is running, or has had a provider call, only
\* when every node of the levels before its own is completed or failed; and
\* when the results of a level have been collected every node of the level
\* is completed or failed, whichever of them failed.
C23_LevelsRunOneAfterAnother ==
    (cmd = "commit" /\ pc \in {"exec", "done"}) =>
        /\ \A id \in DOMAIN dag.nodes :
              (dag.nodes[id].Status # "pending"
                  \/ calls[id].create + calls[id].update > 0) =>
                  \A before \in DOMAIN dag.nodes :
                      (\E l \in LevelOf(executionOrder, before) :
                          \A m \in LevelOf(executionOrder, id) : l < m) =>
                          Terminal(before)
        /\ (exec.levelIndex > 0 /\ exec.received = Len(CurrentLevel)) =>
              \A id \in Range(CurrentLevel) : Terminal(id)

\* A level of two nodes whose results are collected: one failed and the
\* other completed, and a later level is still to come.
C23_Witness ==
    /\ cmd = "commit" /\ pc = "exec"
    /\ exec.levelIndex > 0 /\ exec.levelIndex < Len(executionOrder)
    /\ exec.received = Len(CurrentLevel)
    /\ \E a, b \in Range(CurrentLevel) :
          /\ dag.nodes[a].Status = "failed"
          /\ dag.nodes[b].Status = "completed"
          /\ calls[b].create + calls[b].update > 0

(***************************************************************************)
(* Claims about the status of DAG nodes in commit and dismantle            *)
(* (SpecExecution)                                                         *)
(***************************************************************************)
StatusStep(id) ==
    LET from == dag.nodes[id].Status
        to == dag'.nodes[id].Status
    IN  \/ to = from
        \/ from = "pending" /\ to = "running"
        \/ from = "running" /\ to \in {"completed", "failed"}

\* C24: in commit and in dismantle the status of a node of the DAG changes
\* only from pending to running and from running to completed or failed.
C24_StatusLifecycle ==
    [][(dag.built /\ dag'.built) =>
          \A id \in DOMAIN dag.nodes \cap DOMAIN dag'.nodes : StatusStep(id)]_vars

\* A dismantle that ended with a completed and a failed node
C24_Witness ==
    /\ cmd = "dismantle" /\ pc = "done"
    /\ \E a, b \in DOMAIN dag.nodes :
          /\ dag.nodes[a].Status = "completed"
          /\ dag.nodes[b].Status = "failed"

(***************************************************************************)
(* Claim about cancellation of retryWithBackoff (SpecRetryFair)            *)
(***************************************************************************)
CancelledInWait == cmd = "retryWithBackoff" /\ pc = "wait" /\ retry.cancelled

\* C25: once the context is cancelled while retryWithBackoff waits between
\* two attempts, the function returns the cancellation error: the delay is
\* not waited out, the operation is not invoked again, and the return
\* happens.
C25_CancelEndsTheWait ==
    /\ [][CancelledInWait =>
            /\ pc' = "returned"
            /\ err'.kind = "context_done"
            /\ retry' = retry]_vars
    /\ (CancelledInWait ~> (pc = "returned" /\ err.kind = "context_done"))

\* Cancelled during the second wait: two invocations, one delay waited out
C25_Witness ==
    /\ cmd = "retryWithBackoff" /\ pc = "returned"
    /\ retry.cancelled
    /\ err.kind = "context_done"
    /\ Len(retry.results) = 2
    /\ retry.waits = << 1 >>

(***************************************************************************)
(* Claim about the node a cycle error names (SpecDAG)                      *)
(***************************************************************************)
OnCycle(rel, id) == id \in DOMAIN rel /\ id \in Ancestors(rel, id)

\* C26: when NewDAG rejects a graph because of a cycle, the node the error
\* names is itself on a dependency cycle, whatever the iteration order.
C26_NamedNodeIsOnCycle ==
    (cmd = "NewDAG" /\ pc # "start" /\ err.kind = "circular_dependency") =>
        OnCycle(DepRelation(instances), err.node)

\* The error names a node that only leads to a cycle.
C26_Counterexample ==
    /\ cmd = "NewDAG" /\ pc = "built"
    /\ err.kind = "circular_dependency"
    /\ ~OnCycle(DepRelation(instances), err.node)

(***************************************************************************)
(* Claim about bootstrap and dependency cycles (SpecBootstrap)             *)
(***************************************************************************)
DependsOnRelation(insts) ==
    [id \in DOMAIN insts |-> Range(insts[id].DependsOn) \cap DOMAIN insts]

\* C27: bootstrap fails for every configuration whose depends_on relation
\* contains a cycle, and it creates, updates and deletes nothing.
C27_BootstrapRejectsCycles ==
    (cmd = "bootstrap" /\ Cyclic(DependsOnRelation(instances))) =>
        /\ pc # "done"
        /\ calls = NoCalls
        /\ \A id \in IDs : live[id] = Absent

\* Bootstrap succeeded on resources that depend on each other in a ring.
C27_Counterexample ==
    /\ cmd = "bootstrap" /\ pc = "done" /\ err = NoError
    /\ Cyclic(DependsOnRelation(instances))

(***************************************************************************)
(* Claim about unknown identifiers in evaluateExpression (SpecEvaluate)    *)
(***************************************************************************)
IsFragment(part) == HasPrefix(part, "${") /\ HasSuffix(part, "}")

FragmentName(part) == SubSeq(part, 3, Len(part) - 1)

UnknownFragment(part) ==
    IsFragment(part) /\ FragmentName(part) \notin DOMAIN evaluation.variables

\* The text of a part once evaluated: the value of a known variable, and
\* everything else as it was written
PartText(part) ==
    IF IsFragment(part) /\ ~UnknownFragment(part)
    THEN Sprint(evaluation.variables[FragmentName(part)])
    ELSE part

\* C28: evaluating a string with a "${...}" fragment that names an unknown
\* identifier terminates and returns the string with that fragment kept as
\* written, when the fragment is the whole string and when it is embedded.
C28_UnknownFragmentPreserved ==
    (/\ cmd = "evaluateExpression" /\ pc # "evaluate"
     /\ \E i \in 1..3 : UnknownFragment(evaluation.parts[i])) =>
        /\ evaluation.status = "ok"
        /\ Sprint(evaluation.value) =
              PartText(evaluation.parts[1]) \o PartText(evaluation.parts[2])
                  \o PartText(evaluation.parts[3])

\* "web-${index}" at document level, where index is no variable: the loop
\* of evaluateExpression never ends.
C28_Counterexample ==
    /\ cmd = "evaluateExpression" /\ pc = "hung"
    /\ EvaluateInput = "web-${index}"
    /\ "index" \notin DOMAIN evaluation.variables

\* The whole string is the unknown fragment: it is returned as written.
C28_WholeStringPreserved ==
    /\ cmd = "evaluateExpression" /\ pc = "evaluated"
    /\ EvaluateInput = "${missing}"
    /\ evaluation.value = StrV("${missing}")

(***************************************************************************)
(* Claim about termination of executeChanges (SpecCommitFair)              *)
(***************************************************************************)
ResultsOf(id) == {res \in exec.resultChan : res.nodeID = id}

\* Until the receive loop has emptied the channel, a worker that returned
\* has one result on it and a worker that did not has none
OneResultPerWorker ==
    (cmd = "commit" /\ pc = "exec" /\ exec.levelIndex > 0
        /\ exec.received = 0) =>
        /\ \A id \in DOMAIN exec.worker :
              Cardinality(ResultsOf(id)) =
                  IF exec.worker[id] = "returned" THEN 1 ELSE 0
        /\ \A res \in exec.resultChan : res.nodeID \in DOMAIN exec.worker

ExecuteChangesReturned ==
    /\ cmd = "commit" /\ pc = "done"
    /\ exec.levelIndex = Len(executionOrder)
    /\ \A id \in DOMAIN dag.nodes \cap DOMAIN driftResults : Terminal(id)

Existing ==
    [id \in {i \in DOMAIN instances \cap DOMAIN driftResults :
                driftResults[i].CurrentState # Absent} |-> instances[id]]

\* An existing instance names, in depends_on, an instance whose live
\* resource does not exist
MissingTarget == \E id \in DOMAIN Existing : MissingDeps(Existing, id) # {}

\* C30: dismantle builds its DAG from the existing instances only; when an
\* existing instance has a depends_on target whose live resource does not
\* exist, dismantle aborts at the construction of the DAG with a
\* dependency-not-found error and issues no delete.
C30_DismantleDAGOfExistingOnly ==
    cmd = "dismantle" =>
        /\ dag.built => DOMAIN dag.nodes = DOMAIN Existing
        /\ (MissingTarget /\ pc \notin {"start", "approve", "cancelled"}) =>
              /\ pc = "failed"
              /\ err.kind = "dependency_not_found"
              /\ ~dag.built
              /\ \A id \in IDs : calls[id].delete = 0

\* Two existing instances, one of which depends on a resource that is not
\* there: dismantle stopped before any delete.
C30_Witness ==
    /\ cmd = "dismantle" /\ pc = "failed"
    /\ err.kind = "dependency_not_found"
    /\ MissingTarget
    /\ Cardinality(DOMAIN Existing) = 2
    /\ \E id \in DOMAIN instances : driftResults[id].CurrentState = Absent

====
